---- MODULE Spec2Model ----
(***************************************************************************)
(* A model of the linear-system-solver repository: the dispatch layer      *)
(* (SystemData, SolverFactory, NumericalSolver, RootFinderFactory), the    *)
(* pre-validator, the step recorder and the root finders.                   *)
(*                                                                         *)
(* Real numbers are modelled as exact rationals <<num, den>> in lowest     *)
(* terms with den > 0.  The inputs are small integers and short decimals,  *)
(* for which IEEE double arithmetic differs from the exact value by far    *)
(* less than any tolerance the code compares against.                      *)
(***************************************************************************)
EXTENDS Integers, Sequences, FiniteSets, TLC

(***************************************************************************)
(* Bounds of the model.                                                    *)
(***************************************************************************)
MaxN == 2

MaxIter == 3

(***************************************************************************)
(* Exact rational arithmetic.                                              *)
(***************************************************************************)
Abs(i) == IF i < 0 THEN -i ELSE i

RECURSIVE Gcd(_, _)
Gcd(a, b) == IF b = 0 THEN a ELSE Gcd(b, a % b)

Rat(n, d) ==
  LET s == IF d < 0 THEN -1 ELSE 1
      g == Gcd(Abs(n), Abs(d))
  IN  IF n = 0 THEN <<0, 1>> ELSE <<(s * n) \div g, Abs(d) \div g>>

I2R(i) == <<i, 1>>

Zero == <<0, 1>>

\* Operands are in lowest terms; common factors are divided out before
\* multiplying so that intermediate products stay small.
RAdd(x, y) ==
  LET g == Gcd(x[2], y[2])
  IN  Rat(x[1] * (y[2] \div g) + y[1] * (x[2] \div g), (x[2] \div g) * y[2])

RNeg(x) == <<-x[1], x[2]>>

RSub(x, y) == RAdd(x, RNeg(y))

RMul(x, y) ==
  IF x[1] = 0 \/ y[1] = 0 THEN <<0, 1>>
  ELSE LET g1 == Gcd(Abs(x[1]), y[2])
           g2 == Gcd(Abs(y[1]), x[2])
       IN  Rat((x[1] \div g1) * (y[1] \div g2), (x[2] \div g2) * (y[2] \div g1))

RDiv(x, y) ==
  IF y[1] = 0 THEN Rat(x[1] * y[2], 0)
  ELSE RMul(x, IF y[1] < 0 THEN <<-y[2], -y[1]>> ELSE <<y[2], y[1]>>)

RAbs(x) == <<Abs(x[1]), x[2]>>

RLt(x, y) == x[1] * y[2] < y[1] * x[2]

RLe(x, y) == x[1] * y[2] <= y[1] * x[2]

RIsZero(x) == x[1] = 0

RECURSIVE Pow10(_)
Pow10(e) == IF e = 0 THEN 1 ELSE 10 * Pow10(e - 1)

\* floor(d / 10^e), by e integer divisions (no power of ten is formed, so
\* thresholds such as 1e-12 stay within machine integers).
RECURSIVE DivPow10(_, _)
DivPow10(d, e) == IF e = 0 \/ d = 0 THEN d ELSE DivPow10(d \div 10, e - 1)

\* |x| < 10^-e, i.e. |num| * 10^e < den.
BelowPow10Neg(x, e) == Abs(x[1]) <= DivPow10(x[2] - 1, e)

\* |x| > 10^-e, i.e. |num| * 10^e > den.
AbovePow10Neg(x, e) == Abs(x[1]) > DivPow10(x[2], e)

(***************************************************************************)
(* Vectors and matrices of rationals (1-based; row k of the code is row    *)
(* k+1 here).                                                              *)
(***************************************************************************)
Rows(A) == Len(A)

Cols(A) == IF Len(A) = 0 THEN 0 ELSE Len(A[1])

SwapRows(A, i, j) ==
  [r \in 1..Len(A) |-> IF r = i THEN A[j] ELSE IF r = j THEN A[i] ELSE A[r]]

ToRatVec(v) == [i \in 1..Len(v) |-> I2R(v[i])]

ToRatMat(M) == [i \in 1..Len(M) |-> ToRatVec(M[i])]

(***************************************************************************)
(* SolverFactory.validate: a disposable Gaussian elimination with partial  *)
(* pivoting on a copy of (A, b), then a scan of the rows.  The result is   *)
(* "ok" when it returns, or the error it raises.                           *)
(***************************************************************************)
ValidateTolExp == 12

\* The first row i in k..n with the largest |A[i][k]| (the scan keeps the
\* earlier row on a tie, since it replaces only on a strictly larger value).
PivotRow(A, k, n) ==
  CHOOSE i \in k..n :
    /\ \A j \in k..n : RLe(RAbs(A[j][k]), RAbs(A[i][k]))
    /\ \A j \in k..(i - 1) : RLt(RAbs(A[j][k]), RAbs(A[i][k]))

\* Rows k+1..n minus factor * row k, from column k on; column k set to 0.
EliminateBelow(A, k, n) ==
  [i \in 1..Len(A) |->
     IF i <= k \/ i > n THEN A[i]
     ELSE LET factor == RDiv(A[i][k], A[k][k])
          IN  [j \in 1..Len(A[i]) |->
                 IF j < k THEN A[i][j]
                 ELSE IF j = k THEN Zero
                 ELSE RSub(A[i][j], RMul(factor, A[k][j]))]]

EliminateBelowB(A, b, k, n) ==
  [i \in 1..Len(b) |->
     IF i <= k \/ i > n THEN b[i]
     ELSE RSub(b[i], RMul(RDiv(A[i][k], A[k][k]), b[k]))]

RowAllTiny(A, i) == \A j \in 1..Len(A[i]) : BelowPow10Neg(A[i][j], ValidateTolExp)

\* The row scan at the end of validate: the first all-zero row decides.
RECURSIVE ValidateRows(_, _, _, _)
ValidateRows(A, b, n, i) ==
  IF i > n THEN "ok"
  ELSE IF ~RowAllTiny(A, i) THEN ValidateRows(A, b, n, i + 1)
  ELSE IF i > Len(b) THEN "IndexError"
  ELSE IF AbovePow10Neg(b[i], ValidateTolExp) THEN "inconsistent"
  ELSE IF BelowPow10Neg(b[i], ValidateTolExp) THEN "infinite"
  ELSE ValidateRows(A, b, n, i + 1)

RECURSIVE ValidateFrom(_, _, _, _)
ValidateFrom(A, b, n, k) ==
  IF k > n THEN ValidateRows(A, b, n, 1)
  ELSE IF k > Cols(A) THEN "IndexError"
  ELSE LET p == PivotRow(A, k, n)
       IN  IF BelowPow10Neg(A[p][k], ValidateTolExp)
             THEN ValidateFrom(A, b, n, k + 1)
           ELSE IF p # k /\ p > Len(b) THEN "IndexError"
           ELSE IF n > k /\ Len(b) < n THEN "IndexError"
           ELSE LET A1 == IF p # k THEN SwapRows(A, k, p) ELSE A
                    b1 == IF p # k THEN SwapRows(b, k, p) ELSE b
                IN  ValidateFrom(EliminateBelow(A1, k, n),
                                 EliminateBelowB(A1, b1, k, n), n, k + 1)

validate(A, b, n) == ValidateFrom(A, b, n, 1)

(***************************************************************************)
(* The requests a caller can make: a system (A, b), a method name and the  *)
(* params mapping.  SystemData performs no shape check, so the malformed   *)
(* systems are requests too.                                               *)
(***************************************************************************)
Vals == {0, 1}

SquareSystems ==
  UNION { { [A |-> ToRatMat(M), b |-> ToRatVec(v)] :
              M \in [1..n -> [1..n -> Vals]], v \in [1..n -> Vals] } :
          n \in 1..MaxN }

ScenarioSystems ==
  { [A |-> ToRatMat(<<<<1, 2>>, <<2, 4>>>>), b |-> ToRatVec(<<3, 6>>)],
    [A |-> ToRatMat(<<<<1, 2>>, <<2, 4>>>>), b |-> ToRatVec(<<3, 7>>)],
    [A |-> ToRatMat(<<<<2, 1>>, <<1, 3>>>>), b |-> ToRatVec(<<3, 5>>)],
    [A |-> ToRatMat(<<<<3, -1>>, <<-2, 5>>>>), b |-> ToRatVec(<<1, 4>>)] }

MalformedSystems ==
  { [A |-> ToRatMat(<<<<1, 1>>>>), b |-> ToRatVec(<<1>>)],
    [A |-> ToRatMat(<<<<1>>, <<1>>>>), b |-> ToRatVec(<<1, 1>>)],
    [A |-> ToRatMat(<<<<1, 0>>, <<0, 1>>>>), b |-> ToRatVec(<<1>>)],
    [A |-> ToRatMat(<<<<1>>>>), b |-> ToRatVec(<<1, 1>>)] }

Systems == SquareSystems \cup ScenarioSystems \cup MalformedSystems

IsSquare(A) == \A i \in 1..Len(A) : Len(A[i]) = Len(A)

WellFormed(A, b) == IsSquare(A) /\ Len(b) = Len(A)

\* SolverFactory.SOLVERS: method name -> solver class.
SOLVERS ==
  [ m \in {"Gauss Elimination", "Gauss-Jordan", "Doolittle", "Crout",
           "Cholesky", "Jacobi-Iteration", "Gauss-Seidel"} |->
      CASE m = "Gauss Elimination" -> "GaussElimination"
        [] m = "Gauss-Jordan"      -> "GaussJordan"
        [] m = "Doolittle"         -> "Doolittle"
        [] m = "Crout"             -> "Crout"
        [] m = "Cholesky"          -> "Cholesky"
        [] m = "Jacobi-Iteration"  -> "IterativeMethod"
        [] m = "Gauss-Seidel"      -> "IterativeMethod" ]

IterativeNames == {"Jacobi-Iteration", "Gauss-Seidel"}

DirectNames == DOMAIN SOLVERS \ IterativeNames

LUForms == {"Doolittle", "Crout", "Cholesky"}

\* A method name that SOLVERS does not hold.
UnregisteredNames == {"Conjugate Gradient"}

NoParams == <<>>

LUParams == { "LU Form" :> f : f \in LUForms }

IterParams(n) ==
  { ("Initial Guess" :> [i \in 1..n |-> Zero]) @@ ("max_iter_var" :> m) @@
    ("error_tol_var" :> <<1, 100>>) : m \in {MaxIter} }

\* The (method, params) pairs of the requests.
MethodRequests(n) ==
  ((DirectNames \cup UnregisteredNames) \X {NoParams})
    \cup ({"LU Decomposition"} \X (LUParams \cup {NoParams}))
    \cup (IterativeNames \X (IterParams(n) \cup {NoParams}))

\* Python's None: as the value of a name (a string here) and as an absent
\* object (a record here, comparable with the records that model objects).
None == "None"

Nil == [nil |-> TRUE]

(***************************************************************************)
(* State.                                                                  *)
(*   req          the request as the caller built it (never changes)       *)
(*   heap         the caller's A, b and params objects; SystemData keeps   *)
(*                references to them, so data.A, data.b and data.params     *)
(*                name entries of heap                                      *)
(*   data         the SystemData object (None before construction)         *)
(*   pc           the position inside NumericalSolver.solve / get_solver   *)
(*   solver_class get_solver's local                                       *)
(*   solver       the solver instance (None until constructed)             *)
(*   vstat        the call of SolverFactory.validate: not_called, running, *)
(*                returned or raised                                        *)
(*   exc          the exception in flight (None when there is none)        *)
(*   results      what NumericalSolver.solve returned (None before)        *)
(*   rf, loc, steps, spc, sres   the solver whose solve() is running, its  *)
(*                locals, its step record, its position and its outcome    *)
(***************************************************************************)
VARIABLES req, heap, data, pc, solver_class, solver, vstat, exc, results,
          rf, loc, steps, spc, sres, gui

lvars == <<req, heap, data, pc, solver_class, solver, vstat, exc, results, gui>>

svars == <<rf, loc, steps, spc, sres>>

vars == <<lvars, svars>>

SolverIdle ==
  /\ rf = Nil /\ loc = Nil /\ steps = <<>> /\ spc = "idle" /\ sres = Nil

Raise(type, what) ==
  /\ exc' = [type |-> type, what |-> what]
  /\ pc' = "raised"

(***************************************************************************)
(* SystemData.__init__: stores the caller's A, b and params by reference,  *)
(* takes N from the row count, and writes params["use_scaling"].           *)
(***************************************************************************)
SystemDataInit ==
  /\ pc = "caller"
  /\ data' = [A |-> "A", b |-> "b", method |-> req.method,
              precision |-> req.precision, params |-> "params",
              N |-> Len(heap.A), single_step |-> FALSE]
  /\ heap' = [heap EXCEPT !.params = ("use_scaling" :> FALSE) @@ heap.params]
  /\ pc' = "get_solver"
  /\ UNCHANGED <<req, solver_class, solver, vstat, exc, results, svars, gui>>

(***************************************************************************)
(* SolverFactory.get_solver, statement by statement.                       *)
(***************************************************************************)
\* get_solver without the resolution of "LU Decomposition".
GetSolverNoResolveLU ==
  /\ pc = "get_solver"
  /\ pc' = "lookup"
  /\ UNCHANGED <<req, heap, data, solver_class, solver, vstat, exc, results, svars, gui>>

\* if data.method == "LU Decomposition": data.method = data.params["LU Form"]
GetSolverResolveLU ==
  /\ pc = "get_solver"
  /\ IF data.method = "LU Decomposition"
       THEN IF "LU Form" \in DOMAIN heap[data.params]
              THEN /\ data' = [data EXCEPT !.method = heap[data.params]["LU Form"]]
                   /\ pc' = "lookup"
                   /\ UNCHANGED exc
              ELSE /\ Raise("KeyError", "LU Form")
                   /\ UNCHANGED data
       ELSE /\ pc' = "lookup"
            /\ UNCHANGED <<data, exc>>
  /\ UNCHANGED <<req, heap, solver_class, solver, vstat, results, svars, gui>>

\* solver_class = SolverFactory.SOLVERS.get(data.method)
GetSolverLookup ==
  /\ pc = "lookup"
  /\ solver_class' = IF data.method \in DOMAIN SOLVERS
                       THEN SOLVERS[data.method] ELSE None
  /\ pc' = "set_flag"
  /\ UNCHANGED <<req, heap, data, solver, vstat, exc, results, svars, gui>>

\* data.params["Jacobi"] = 1 if data.method == "Jacobi-Iteration" else 0
GetSolverSetJacobi ==
  /\ pc = "set_flag"
  /\ heap' = [heap EXCEPT ![data.params] =
                ("Jacobi" :> (IF data.method = "Jacobi-Iteration" THEN 1 ELSE 0))
                  @@ heap[data.params]]
  /\ pc' = "validate_decision"
  /\ UNCHANGED <<req, data, solver_class, solver, vstat, exc, results, svars, gui>>

\* The guard with one of the two iterative names forgotten.
NeedsValidateJacobiOnly(method) ==
  method # "Jacobi-Iteration"

\* The guard of the validate call.
NeedsValidate(method) ==
  method # "Jacobi-Iteration" /\ method # "Gauss-Seidel"

GetSolverDecideValidate ==
  /\ pc = "validate_decision"
  /\ IF NeedsValidate(data.method)
       THEN pc' = "validating" /\ vstat' = "running"
       ELSE pc' = "check_class" /\ UNCHANGED vstat
  /\ UNCHANGED <<req, heap, data, solver_class, solver, exc, results, svars, gui>>

\* SolverFactory.validate(data) runs to its return or to its raise.
GetSolverValidate ==
  /\ pc = "validating"
  /\ LET r == validate(heap[data.A], heap[data.b], data.N)
     IN  CASE r = "ok" -> /\ vstat' = "returned"
                          /\ pc' = "check_class"
                          /\ UNCHANGED exc
           [] r = "IndexError" -> /\ vstat' = "raised"
                                  /\ Raise("IndexError", "index out of bounds")
           [] OTHER -> /\ vstat' = "raised"
                       /\ Raise("ValueError", r)
  /\ UNCHANGED <<req, heap, data, solver_class, solver, results, svars, gui>>

\* if not solver_class: raise ValueError("... is not implemented.")
GetSolverCheckClass ==
  /\ pc = "check_class"
  /\ IF solver_class = None
       THEN Raise("ValueError", "not implemented")
       ELSE pc' = "construct" /\ UNCHANGED exc
  /\ UNCHANGED <<req, heap, data, solver_class, solver, vstat, results, svars, gui>>

\* AbstractSolver.__init__: the solver's private float copies of A and b,
\* the size, the precision and an empty step record.
AbstractSolverInit(d, h) ==
  [A |-> h[d.A], b |-> h[d.b], n |-> d.N, precision |-> d.precision]

\* solver_class(data): the constructor of each class after the base
\* constructor.  The result is the instance, or the exception it raises.
SolverNew(cls, d, h) ==
  LET base == AbstractSolverInit(d, h)
      p == h[d.params]
  IN  CASE cls \in {"GaussElimination", "GaussJordan"} ->
             \* self.use_scaling = data.use_scaling
             IF "use_scaling" \in DOMAIN d
               THEN [ok |-> TRUE,
                     obj |-> [class |-> cls, n |-> base.n, A |-> base.A, b |-> base.b]]
               ELSE [ok |-> FALSE, type |-> "AttributeError", what |-> "use_scaling"]
        [] cls \in {"Doolittle", "Crout", "Cholesky"} ->
             [ok |-> TRUE,
              obj |-> [class |-> cls, n |-> base.n, A |-> base.A, b |-> base.b]]
        [] cls = "IterativeMethod" ->
             IF {"Initial Guess", "max_iter_var", "error_tol_var", "Jacobi"}
                  \subseteq DOMAIN p
               THEN [ok |-> TRUE,
                     obj |-> [class |-> cls, n |-> base.n, A |-> base.A, b |-> base.b]]
               ELSE [ok |-> FALSE, type |-> "KeyError", what |-> "Initial Guess"]

\* return solver_class(data)
GetSolverConstruct ==
  /\ pc = "construct"
  /\ LET r == SolverNew(solver_class, data, heap)
     IN  IF r.ok
           THEN /\ solver' = r.obj
                /\ pc' = "call_solve"
                /\ UNCHANGED exc
           ELSE /\ Raise(r.type, r.what)
                /\ UNCHANGED solver
  /\ UNCHANGED <<req, heap, data, solver_class, vstat, results, svars, gui>>

(***************************************************************************)
(* NumericalSolver.solve: the call of solver.solve(), the success return   *)
(* and the two exception handlers.                                         *)
(***************************************************************************)
\* How a linear solver's solve() can end: with its result dictionary, with
\* a ValueError of its own, or (IterativeMethod with no sweep run) with an
\* UnboundLocalError.
SolveOutcomes(cls) ==
  IF cls = "IterativeMethod"
    THEN {"return", "ValueError", "UnboundLocalError"}
    ELSE {"return", "ValueError"}

\* The dictionary a linear solver returns.
SolveReturn(cls) ==
  IF cls = "IterativeMethod"
    THEN [success |-> TRUE, sol |-> "X", iterations |-> "it", error |-> "error",
          steps |-> "steps"]
    ELSE [success |-> TRUE, sol |-> "x", steps |-> "steps"]

\* results = solver.solve()
CallSolve ==
  /\ pc = "call_solve"
  /\ \E o \in SolveOutcomes(solver.class) :
       IF o = "return"
         THEN /\ results' = SolveReturn(solver.class)
              /\ pc' = "solved"
              /\ UNCHANGED exc
         ELSE /\ Raise(o, "solver")
              /\ UNCHANGED results
  /\ UNCHANGED <<req, heap, data, solver_class, solver, vstat, svars, gui>>

\* results["method_used"] = ...; results["precision"] = ...; return results
SolveSuccess ==
  /\ pc = "solved"
  /\ results' = ("method_used" :> data.method) @@ ("precision" :> data.precision)
                  @@ ("execution_time" :> "t") @@ results
  /\ pc' = "done"
  /\ UNCHANGED <<req, heap, data, solver_class, solver, vstat, exc, svars, gui>>

\* The failure dictionary of a handler.
FailureResult(msg) ==
  [success |-> FALSE, error_message |-> msg, execution_time |-> "t"]

\* except ValueError as e
ExceptValueError ==
  /\ pc = "raised"
  /\ exc.type = "ValueError"
  /\ results' = FailureResult(exc.what)
  /\ exc' = Nil
  /\ pc' = "done"
  /\ UNCHANGED <<req, heap, data, solver_class, solver, vstat, svars, gui>>

\* A second handler that catches only KeyError.
ExceptKeyErrorOnly ==
  /\ pc = "raised"
  /\ exc.type = "KeyError"
  /\ results' = FailureResult("An unexpected error occurred")
  /\ exc' = Nil
  /\ pc' = "done"
  /\ UNCHANGED <<req, heap, data, solver_class, solver, vstat, svars, gui>>

\* except Exception as e
ExceptException ==
  /\ pc = "raised"
  /\ exc.type # "ValueError"
  /\ results' = FailureResult("An unexpected error occurred")
  /\ exc' = Nil
  /\ pc' = "done"
  /\ UNCHANGED <<req, heap, data, solver_class, solver, vstat, svars, gui>>

(***************************************************************************)
(* The linear solve request: specification Spec.                           *)
(***************************************************************************)
Init ==
  /\ gui = Nil
  /\ \E sys \in Systems : \E mp \in MethodRequests(Len(sys.A)) :
       /\ req = [A |-> sys.A, b |-> sys.b, method |-> mp[1], precision |-> 5,
                 params |-> mp[2]]
       /\ heap = [A |-> sys.A, b |-> sys.b, params |-> mp[2]]
  /\ data = Nil
  /\ pc = "caller"
  /\ solver_class = None
  /\ solver = Nil
  /\ vstat = "not_called"
  /\ exc = Nil
  /\ results = Nil
  /\ SolverIdle

Next ==
  \/ SystemDataInit
  \/ GetSolverResolveLU
  \/ GetSolverLookup
  \/ GetSolverSetJacobi
  \/ GetSolverDecideValidate
  \/ GetSolverValidate
  \/ GetSolverCheckClass
  \/ GetSolverConstruct
  \/ CallSolve
  \/ SolveSuccess
  \/ ExceptValueError
  \/ ExceptException

Spec == Init /\ [][Next]_vars

(***************************************************************************)
(* What the system Ax = b really is, by ranks computed from minors         *)
(* (independent of any elimination order).                                 *)
(***************************************************************************)
RECURSIVE SortedSeq(_)
SortedSeq(S) ==
  IF S = {} THEN <<>>
  ELSE LET m == CHOOSE x \in S : \A y \in S : x <= y
       IN  <<m>> \o SortedSeq(S \ {m})

SubMatrix(M, R, C) ==
  LET rs == SortedSeq(R)
      cs == SortedSeq(C)
  IN  [i \in 1..Len(rs) |-> [j \in 1..Len(cs) |-> M[rs[i]][cs[j]]]]

RECURSIVE Det(_)
Det(M) ==
  IF Len(M) = 1 THEN M[1][1]
  ELSE LET n == Len(M)
           Term(j) == RMul(IF j % 2 = 1 THEN M[1][j] ELSE RNeg(M[1][j]),
                           Det(SubMatrix(M, 2..n, (1..n) \ {j})))
           Sum[j \in 0..n] == IF j = 0 THEN Zero ELSE RAdd(Sum[j - 1], Term(j))
       IN  Sum[n]

Rank(M) ==
  LET r == Len(M)
      c == Cols(M)
      Has(k) == \E R \in SUBSET (1..r), C \in SUBSET (1..c) :
                  /\ Cardinality(R) = k /\ Cardinality(C) = k
                  /\ ~RIsZero(Det(SubMatrix(M, R, C)))
  IN  CHOOSE k \in 0..r : (k = 0 \/ Has(k)) /\ \A k2 \in (k + 1)..r : k2 > c \/ ~Has(k2)

Augmented(A, b) == [i \in 1..Len(A) |-> Append(A[i], b[i])]

NoSolution(A, b) == Rank(A) < Rank(Augmented(A, b))

InfinitelyManySolutions(A, b) ==
  Rank(A) = Rank(Augmented(A, b)) /\ Rank(A) < Len(A)

Singular(A) == Rank(A) < Len(A)

(***************************************************************************)
(* Properties of the dispatch layer (specification Spec).                  *)
(***************************************************************************)
PastValidateDecision ==
  pc \in {"check_class", "construct", "call_solve", "solved"}

\* C1: get_solver calls validate exactly when the resolved method is neither
\* "Jacobi-Iteration" nor "Gauss-Seidel"; the call has returned before the
\* solver instance exists; and for the two iterative methods no
\* inconsistent-system or infinite-solutions error is ever raised.
C1_ValidateGate ==
  /\ vstat # "not_called" => data.method \notin IterativeNames
  /\ PastValidateDecision =>
       vstat = (IF data.method \in IterativeNames THEN "not_called" ELSE "returned")
  /\ solver # Nil =>
       vstat = (IF data.method \in IterativeNames THEN "not_called" ELSE "returned")
  /\ (data # Nil /\ data.method \in IterativeNames) =>
       /\ exc # Nil => exc.what \notin {"inconsistent", "infinite"}
       /\ (results # Nil /\ ~results.success) =>
            results.error_message \notin {"inconsistent", "infinite"}

\* An iterative solver constructed on a singular system with validate never
\* called.
C1_Witness ==
  /\ solver # Nil
  /\ data.method = "Gauss-Seidel"
  /\ vstat = "not_called"
  /\ validate(heap.A, heap.b, data.N) \in {"inconsistent", "infinite"}

\* C2 (as claimed): an unregistered method name on a well-formed system
\* always ends get_solver with the unimplemented-method error.
C2_UnregisteredAlwaysUnimplemented ==
  (pc = "raised" /\ req.method \in UnregisteredNames /\ WellFormed(req.A, req.b))
    => exc = [type |-> "ValueError", what |-> "not implemented"]

\* C3 (as claimed): whenever validate raises on a square system, it raises
\* "inconsistent" only when Ax = b has no solution and "infinite" only when
\* it has infinitely many.
C3_ClassificationRight ==
  (vstat = "raised" /\ pc = "raised" /\ WellFormed(req.A, req.b)) =>
    /\ exc.what = "inconsistent" => NoSolution(req.A, req.b)
    /\ exc.what = "infinite" => InfinitelyManySolutions(req.A, req.b)

\* C4 (as claimed): a direct method on a singular square system never gets
\* past validate, so no direct solver is constructed on it.
C4_SingularNeverConstructed ==
  (WellFormed(req.A, req.b) /\ Singular(req.A) /\ data # Nil
     /\ data.method \in DirectNames)
    => pc \notin {"check_class", "construct", "call_solve", "solved"} /\ solver = Nil

\* C5: with method "LU Decomposition" and params["LU Form"] one of Doolittle,
\* Crout, Cholesky, the method is that form from the lookup on (so before
\* the lookup and the validate decision), and the class looked up and the
\* solver constructed are that form's.
C5_LUFormResolved ==
  (req.method = "LU Decomposition" /\ "LU Form" \in DOMAIN req.params) =>
    LET form == req.params["LU Form"]
    IN  /\ pc \in {"lookup", "set_flag", "validate_decision", "validating",
                   "check_class", "construct", "call_solve", "solved"}
             => data.method = form
        /\ vstat # "not_called" => data.method = form
        /\ pc \in {"set_flag", "validate_decision", "validating", "check_class",
                   "construct", "call_solve", "solved"}
             => solver_class = SOLVERS[form]
        /\ solver # Nil => solver.class = form

C5_Witness ==
  /\ req.method = "LU Decomposition"
  /\ "LU Form" \in DOMAIN req.params
  /\ req.params["LU Form"] = "Crout"
  /\ solver # Nil
  /\ solver.class = "Crout"

\* C6: NumericalSolver.solve propagates no exception: every exception in
\* flight has a handler, and what solve returns is either the success form
\* (success, the solver's solution and steps, no error_message) or the
\* failure form (not success, an error_message, no solution).
C6_NoExceptionEscapes ==
  /\ pc = "raised" => ENABLED (ExceptValueError \/ ExceptException)
  /\ pc = "done" =>
       /\ exc = Nil
       /\ results # Nil
       /\ \/ /\ results.success
             /\ {"sol", "steps"} \subseteq DOMAIN results
             /\ "error_message" \notin DOMAIN results
          \/ /\ ~results.success
             /\ "error_message" \in DOMAIN results
             /\ {"sol", "steps"} \cap DOMAIN results = {}
  /\ (results # Nil /\ results.success) => solver # Nil

\* A failure result produced from an exception that is no ValueError.
C6_Witness ==
  /\ pc = "done"
  /\ ~results.success
  /\ results.error_message = "An unexpected error occurred"
  /\ solver = Nil

\* C7 (as claimed): every SystemData that reaches the factory has a square A
\* and as many constants as rows.
C7_OnlyWellFormedReachFactory ==
  pc = "get_solver" => WellFormed(heap[data.A], heap[data.b])

\* C8 (as claimed): the caller's A, b, method name and params mapping keep
\* the values the caller gave them.
C8_CallerDataUnchanged ==
  /\ heap.A = req.A
  /\ heap.b = req.b
  /\ DOMAIN heap.params = DOMAIN req.params
  /\ data # Nil => data.method = req.method

(***************************************************************************)
(* AbstractRootFinder: rounding to significant figures, the evaluator and  *)
(* the step recorder.                                                      *)
(***************************************************************************)
\* floor(log10(|x|)) for x # 0.
RECURSIVE FloorLog10Up(_, _, _)
FloorLog10Up(n, d, e) ==
  IF n < 10 * d THEN e ELSE FloorLog10Up(n, 10 * d, e + 1)

RECURSIVE FloorLog10Down(_, _, _)
FloorLog10Down(n, d, e) ==
  IF n >= d THEN e ELSE FloorLog10Down(10 * n, d, e - 1)

FloorLog10(x) ==
  LET n == Abs(x[1])
      d == x[2]
  IN  IF n >= d THEN FloorLog10Up(n, d, 0) ELSE FloorLog10Down(n, d, 0)

\* The integer nearest to n/d (d > 0), ties to the even one, as round().
RoundHalfEven(n, d) ==
  LET q == Abs(n) \div d
      r == Abs(n) % d
      up == 2 * r > d \/ (2 * r = d /\ q % 2 = 1)
      m == IF up THEN q + 1 ELSE q
  IN  IF n < 0 THEN -m ELSE m

\* round(x, digits).
RoundDigits(x, digits) ==
  IF digits >= 0
    THEN LET g == Gcd(x[2], Pow10(digits))
         IN  Rat(RoundHalfEven(x[1] * (Pow10(digits) \div g), x[2] \div g),
                 Pow10(digits))
    ELSE I2R(RoundHalfEven(x[1], x[2] * Pow10(-digits)) * Pow10(-digits))

\* The mutated rounding: to n decimal places instead of n significant
\* figures.
round_decimals(x, n) == IF RIsZero(x) THEN Zero ELSE RoundDigits(x, n)

\* AbstractRootFinder.round_sig_fig(x, n).
round_sig_fig(x, n) ==
  IF RIsZero(x) THEN Zero ELSE RoundDigits(x, n - FloorLog10(x) - 1)

\* Non-finite floats: a pair with denominator 0 is +inf, -inf or nan.
PosInf == <<1, 0>>
NegInf == <<-1, 0>>
NaN == <<0, 0>>

\* math.isfinite(value)
is_finite(value) == value[2] # 0

\* The exception round_sig_fig ends with on a non-finite x: math.floor
\* cannot convert math.log10(abs(x)) to an integer.
RoundSigFigError(x) == IF x[1] = 0 THEN "ValueError" ELSE "OverflowError"

\* The equations: polynomials c[1] + c[2] x + c[3] x^2 + ..., given by their
\* coefficients.  A coefficient Huge stands for the factor 1e200*1e200 in a
\* term x^k*1e200*1e200: the term is 0 at x = 0 (for k > 0) and overflows to
\* an infinity everywhere else.  evaluate(f, x) is the value of the
\* expression at x.
Huge == PosInf

IsHuge(c) == c[2] = 0

RECURSIVE Horner(_, _, _)
Horner(c, x, i) ==
  IF i > Len(c) THEN Zero ELSE RAdd(c[i], RMul(x, Horner(c, x, i + 1)))

FinitePart(f) == [i \in 1..Len(f) |-> IF IsHuge(f[i]) THEN Zero ELSE f[i]]

OverflowSign(c, x, k) ==
  IF k = 0 THEN c[1]
  ELSE IF x[1] = 0 THEN 0
  ELSE IF x[1] < 0 /\ k % 2 = 1 THEN -c[1] ELSE c[1]

OverflowSigns(f, x) ==
  {OverflowSign(f[i], x, i - 1) : i \in {j \in 1..Len(f) : IsHuge(f[j])}} \ {0}

evaluate(f, x) ==
  LET s == OverflowSigns(f, x)
  IN  IF s = {} THEN Horner(FinitePart(f), x, 1)
      ELSE IF s = {1} THEN PosInf
      ELSE IF s = {-1} THEN NegInf
      ELSE NaN

\* The derivative of the expression, as a polynomial.
Derivative(f) ==
  [i \in 1..(Len(f) - 1) |->
     IF IsHuge(f[i + 1]) THEN f[i + 1] ELSE RMul(I2R(i), f[i + 1])]

evaluate_first_derivative(f, x) == evaluate(Derivative(f), x)

evaluate_second_derivative(f, x) == evaluate(Derivative(Derivative(f)), x)

\* The mutated recorder: it overwrites the last entry once one exists.
add_step_overwrite(st, step) ==
  IF Len(st) = 0 THEN <<step>> ELSE [st EXCEPT ![Len(st)] = step]

\* AbstractRootFinder.add_step: self.steps.append(step).
add_step(st, step) == Append(st, step)

\* A relative error |num / den| where the code replaces a vanishing
\* denominator by a tiny constant 10^-tiny: the value is v * 10^e.
RelError(num, den, tiny) ==
  IF RIsZero(den) THEN [v |-> RAbs(num), e |-> tiny]
  ELSE [v |-> RAbs(RDiv(num, den)), e |-> 0]

RoundRel(r, n) == [v |-> round_sig_fig(r.v, n), e |-> r.e]

\* r < eps:  v * 10^e < eps.
RelLt(r, eps) ==
  Abs(r.v[1]) * eps[2] <= DivPow10(eps[1] * r.v[2] - 1, r.e)

\* r > 10^k:  v * 10^e > 10^k.
RelGtPow10(r, k) ==
  IF r.e >= k
    THEN Abs(r.v[1]) > DivPow10(r.v[2], r.e - k)
    ELSE Abs(r.v[1]) >= 1 /\ DivPow10(Abs(r.v[1]) - 1, k - r.e) >= r.v[2]

\* AbstractRootFinder._count_correct_sig_figs(current, previous).
count_correct_sig_figs(current, previous, precision) ==
  IF RIsZero(current) \/ RIsZero(previous) THEN 0
  ELSE LET error == RAbs(RDiv(RSub(current, previous), current))
       IN  IF RIsZero(error) THEN precision
           ELSE IF -FloorLog10(error) > 0 THEN -FloorLog10(error) ELSE 0

(***************************************************************************)
(* The root finders.  rf is the finder instance (method, equation,         *)
(* precision, params), loc the locals of its solve(), steps its step       *)
(* record.  spc is "start" before solve() runs, "loop" at the head of the  *)
(* for loop, and "returned" or "raised" when solve() has ended with sres.  *)
(* A local that has not been assigned is absent from loc; reading it       *)
(* raises UnboundLocalError.                                               *)
(***************************************************************************)
\* self.params.get(key, default)
Param(key, default) ==
  IF key \in DOMAIN rf.params THEN rf.params[key] ELSE default

SReturn(d) == spc' = "returned" /\ sres' = d

SRaise(type, what) == spc' = "raised" /\ sres' = [type |-> type, what |-> what]

Success(root, iterations, rel_error, csf, st) ==
  [success |-> TRUE, root |-> root, iterations |-> iterations,
   rel_error |-> rel_error, correct_sig_figs |-> csf, steps |-> st]

Rnd(x) == round_sig_fig(x, rf.precision)

DefaultEps == <<1, 100000>>

DefaultMaxIter == 50

\* The mutated bracket test: it also refuses a bracket with a root at an
\* endpoint.
SameSignOrZero(fa, fb) == RLe(Zero, RMul(fa, fb))

\* if fa * fb > 0
SameStrictSign(fa, fb) == RLt(Zero, RMul(fa, fb))

\* ---- Bisection.solve ----
BisectionStart ==
  /\ rf # Nil /\ rf.method = "Bisection" /\ spc = "start"
  /\ LET a == Param("interval_a", I2R(-5))
         b == Param("interval_b", I2R(5))
         fa == evaluate(rf.equation, a)
         fb == evaluate(rf.equation, b)
     IN  IF SameStrictSign(fa, fb)
           THEN /\ SRaise("ValueError", "no sign change")
                /\ UNCHANGED loc
           ELSE /\ loc' = [a |-> a, b |-> b, fa |-> fa, fb |-> fb, root |-> a,
                           eps |-> Param("epsilon", DefaultEps),
                           max_iter |-> Param("max_iterations", DefaultMaxIter),
                           iteration |-> 0]
                /\ spc' = "loop"
                /\ UNCHANGED sres
  /\ UNCHANGED <<lvars, rf, steps>>

BisectionIterate ==
  /\ rf # Nil /\ rf.method = "Bisection" /\ spc = "loop"
  /\ loc.iteration < loc.max_iter
  /\ LET c == RDiv(RAdd(loc.a, loc.b), I2R(2))
         fc == evaluate(rf.equation, c)
         rel_error == RelError(RSub(c, loc.root), c, 10)
         st == add_step(steps, [iteration |-> loc.iteration + 1, a |-> Rnd(loc.a),
                                b |-> Rnd(loc.b), c |-> Rnd(c), fc |-> Rnd(fc),
                                rel_error |-> RoundRel(rel_error, rf.precision)])
     IN  /\ steps' = st
         /\ IF RLt(RAbs(fc), loc.eps) \/ RelLt(rel_error, loc.eps)
              THEN /\ SReturn(Success(Rnd(c), loc.iteration + 1,
                                      RoundRel(rel_error, rf.precision),
                                      count_correct_sig_figs(c, loc.root, rf.precision),
                                      st))
                   /\ UNCHANGED loc
              ELSE /\ loc' = IF RLt(RMul(loc.fa, fc), Zero)
                               THEN [loc EXCEPT !.b = c, !.fb = fc, !.root = c,
                                                !.iteration = @ + 1]
                               ELSE [loc EXCEPT !.a = c, !.fa = fc, !.root = c,
                                                !.iteration = @ + 1]
                   /\ UNCHANGED <<spc, sres>>
  /\ UNCHANGED <<lvars, rf>>

BisectionExhausted ==
  /\ rf # Nil /\ rf.method = "Bisection" /\ spc = "loop"
  /\ loc.iteration >= loc.max_iter
  /\ SRaise("ValueError", "failed to converge")
  /\ UNCHANGED <<lvars, rf, loc, steps>>

\* ---- FalsePosition.solve ----
FalsePositionStart ==
  /\ rf # Nil /\ rf.method = "False-Position" /\ spc = "start"
  /\ LET a == Rnd(Param("interval_a", I2R(-5)))
         b == Rnd(Param("interval_b", I2R(5)))
         fa == Rnd(evaluate(rf.equation, a))
         fb == Rnd(evaluate(rf.equation, b))
     IN  IF SameStrictSign(fa, fb)
           THEN /\ SRaise("ValueError", "no sign change")
                /\ UNCHANGED loc
           ELSE /\ loc' = [a |-> a, b |-> b, fa |-> fa, fb |-> fb, root |-> a,
                           eps |-> Param("epsilon", DefaultEps),
                           max_iter |-> Param("max_iterations", DefaultMaxIter),
                           iteration |-> 0]
                /\ spc' = "loop"
                /\ UNCHANGED sres
  /\ UNCHANGED <<lvars, rf, steps>>

FalsePositionIterate ==
  /\ rf # Nil /\ rf.method = "False-Position" /\ spc = "loop"
  /\ loc.iteration < loc.max_iter
  /\ IF loc.fb = loc.fa
       THEN /\ SRaise("ZeroDivisionError", "float division by zero")
            /\ UNCHANGED <<loc, steps>>
       ELSE
         LET c == Rnd(RDiv(RSub(RMul(loc.a, loc.fb), RMul(loc.b, loc.fa)),
                           RSub(loc.fb, loc.fa)))
             fc == Rnd(evaluate(rf.equation, c))
             rel_error == RoundRel(RelError(RSub(c, loc.root), c, 10), rf.precision)
             st == add_step(steps, [iteration |-> loc.iteration + 1, a |-> loc.a,
                                    b |-> loc.b, c |-> c, fc |-> fc,
                                    rel_error |-> rel_error])
         IN  /\ steps' = st
             /\ IF RLt(RAbs(fc), loc.eps) \/ RelLt(rel_error, loc.eps)
                  THEN /\ SReturn(Success(c, loc.iteration + 1, rel_error,
                                          count_correct_sig_figs(c, loc.root, rf.precision),
                                          st))
                       /\ UNCHANGED loc
                  ELSE /\ loc' = IF RLt(RMul(loc.fa, fc), Zero)
                                   THEN [loc EXCEPT !.b = c, !.fb = fc, !.root = c,
                                                    !.iteration = @ + 1]
                                   ELSE [loc EXCEPT !.a = c, !.fa = fc, !.root = c,
                                                    !.iteration = @ + 1]
                       /\ UNCHANGED <<spc, sres>>
  /\ UNCHANGED <<lvars, rf>>

FalsePositionExhausted ==
  /\ rf # Nil /\ rf.method = "False-Position" /\ spc = "loop"
  /\ loc.iteration >= loc.max_iter
  /\ SRaise("ValueError", "failed to converge")
  /\ UNCHANGED <<lvars, rf, loc, steps>>

\* ---- FixedPoint.solve ----
\* A run whose iterates are too large for the rationals of this module holds
\* x and g(x) in units of 10^rf.unit (rf.unit = 0 everywhere else): for
\* g(x) = c*x both the evaluation and the rounding to significant figures
\* commute with the unit, and the absolute thresholds are shifted by it.
FixedPointStart ==
  /\ rf # Nil /\ rf.method = "Fixed Point" /\ spc = "start"
  /\ loc' = [x |-> Rnd(Param("initial_guess", I2R(1))),
             eps |-> Param("epsilon", DefaultEps),
             max_iter |-> Param("max_iterations", DefaultMaxIter),
             iteration |-> 0]
  /\ spc' = "loop"
  /\ UNCHANGED <<lvars, rf, steps, sres>>

FixedPointIterate ==
  /\ rf # Nil /\ rf.method = "Fixed Point" /\ spc = "loop"
  /\ loc.iteration < loc.max_iter
  /\ LET gx == Rnd(evaluate(rf.equation, loc.x))
         rel_error == RoundRel(RelError(RSub(gx, loc.x), gx, 10 + rf.unit),
                               rf.precision)
         abs_change == RAbs(RSub(gx, loc.x))
         st == add_step(steps, [iteration |-> loc.iteration + 1, x |-> loc.x,
                                gx |-> gx, rel_error |-> rel_error])
     IN  /\ steps' = st
         /\ IF \/ RelLt(rel_error, loc.eps)
               \/ BelowPow10Neg(abs_change, 12 + rf.unit)
               \/ BelowPow10Neg(abs_change, 14 + rf.unit)
              THEN /\ SReturn(Success(gx, loc.iteration + 1, rel_error,
                                      count_correct_sig_figs(gx, loc.x, rf.precision),
                                      st))
                   /\ UNCHANGED loc
              ELSE IF RelGtPow10([v |-> gx, e |-> rf.unit], 10)
                THEN /\ SRaise("ValueError", "diverged")
                     /\ UNCHANGED loc
                ELSE /\ loc' = (("rel_error" :> rel_error) @@
                                [loc EXCEPT !.x = gx, !.iteration = @ + 1])
                     /\ UNCHANGED <<spc, sres>>
  /\ UNCHANGED <<lvars, rf>>

\* Lines 51-60: the code after the loop returns the last iterate as a
\* success; rel_error is a local of the loop body.
FixedPointExhausted ==
  /\ rf # Nil /\ rf.method = "Fixed Point" /\ spc = "loop"
  /\ loc.iteration >= loc.max_iter
  /\ IF "rel_error" \in DOMAIN loc
       THEN SReturn(Success(loc.x, loc.max_iter, loc.rel_error,
                            count_correct_sig_figs(loc.x, loc.x, rf.precision),
                            steps))
       ELSE SRaise("UnboundLocalError", "rel_error")
  /\ UNCHANGED <<lvars, rf, loc, steps>>

\* ---- NewtonRaphson.solve ----
NewtonRaphsonStart ==
  /\ rf # Nil /\ rf.method = "Newton-Raphson" /\ spc = "start"
  /\ LET x_prev == Rnd(Param("initial_guess", I2R(1)))
         v == evaluate(rf.equation, x_prev)
     IN  IF ~is_finite(v)
           THEN /\ SRaise(RoundSigFigError(v), "cannot convert float to integer")
                /\ UNCHANGED loc
           ELSE IF ~is_finite(Rnd(v))
             THEN /\ SRaise("ValueError", "function value is infinite at initial guess")
                  /\ UNCHANGED loc
             ELSE /\ loc' = [x_prev |-> x_prev, fx |-> Rnd(v),
                             eps |-> Param("epsilon", DefaultEps),
                             max_iter |-> Param("max_iterations", DefaultMaxIter),
                             iteration |-> 0]
                  /\ spc' = "loop"
                  /\ UNCHANGED sres
  /\ UNCHANGED <<lvars, rf, steps>>

NewtonRaphsonIterate ==
  /\ rf # Nil /\ rf.method = "Newton-Raphson" /\ spc = "loop"
  /\ loc.iteration < loc.max_iter
  /\ LET d == evaluate_first_derivative(rf.equation, loc.x_prev)
         dfx == Rnd(d)
     IN  IF ~is_finite(d)
           THEN /\ SRaise(RoundSigFigError(d), "cannot convert float to integer")
                /\ UNCHANGED <<loc, steps>>
         ELSE IF BelowPow10Neg(dfx, 12)
           THEN /\ SRaise("ValueError", "derivative too close to zero")
                /\ UNCHANGED <<loc, steps>>
         ELSE IF ~is_finite(evaluate(rf.equation, Rnd(RSub(loc.x_prev, RDiv(loc.fx, dfx)))))
           THEN /\ SRaise(RoundSigFigError(evaluate(rf.equation,
                              Rnd(RSub(loc.x_prev, RDiv(loc.fx, dfx))))),
                          "cannot convert float to integer")
                /\ UNCHANGED <<loc, steps>>
         ELSE IF ~is_finite(Rnd(evaluate(rf.equation,
                              Rnd(RSub(loc.x_prev, RDiv(loc.fx, dfx))))))
           THEN /\ SRaise("ValueError", "function value became infinite")
                /\ UNCHANGED <<loc, steps>>
           ELSE
             LET x_new == Rnd(RSub(loc.x_prev, RDiv(loc.fx, dfx)))
                 fx_new == Rnd(evaluate(rf.equation, x_new))
                 rel_error == RoundRel(RelError(RSub(x_new, loc.x_prev), x_new, 10),
                                       rf.precision)
                 st == add_step(steps, [iteration |-> loc.iteration + 1,
                                        x |-> loc.x_prev, fx |-> loc.fx, dfx |-> dfx,
                                        x_new |-> x_new, rel_error |-> rel_error])
             IN  /\ steps' = st
                 /\ IF RelLt(rel_error, loc.eps)
                      THEN /\ SReturn(Success(x_new, loc.iteration + 1, rel_error,
                                 count_correct_sig_figs(x_new, loc.x_prev, rf.precision),
                                 st))
                           /\ UNCHANGED loc
                      ELSE /\ loc' = [loc EXCEPT !.x_prev = x_new, !.fx = fx_new,
                                                 !.iteration = @ + 1]
                           /\ UNCHANGED <<spc, sres>>
  /\ UNCHANGED <<lvars, rf>>

NewtonRaphsonExhausted ==
  /\ rf # Nil /\ rf.method = "Newton-Raphson" /\ spc = "loop"
  /\ loc.iteration >= loc.max_iter
  /\ SRaise("ValueError", "failed to converge")
  /\ UNCHANGED <<lvars, rf, loc, steps>>

\* ---- Modified1NewtonRaphson.solve ----
Modified1Start ==
  /\ rf # Nil /\ rf.method = "Modified Newton-Raphson (Known m)" /\ spc = "start"
  /\ IF "multiplicity" \notin DOMAIN rf.params
       THEN /\ SRaise("TypeError", "float() argument must be a string or a number")
            /\ UNCHANGED loc
       ELSE LET x_prev == Rnd(Param("initial_guess", I2R(1)))
                v == evaluate(rf.equation, x_prev)
            IN  IF ~is_finite(v)
                  THEN /\ SRaise(RoundSigFigError(v), "cannot convert float to integer")
                       /\ UNCHANGED loc
                ELSE IF ~is_finite(Rnd(v))
                  THEN /\ SRaise("ValueError",
                                 "function value is infinite at initial guess")
                       /\ UNCHANGED loc
                  ELSE /\ loc' = [x_prev |-> x_prev,
                                  fx |-> Rnd(v),
                                  m |-> rf.params["multiplicity"],
                                  eps |-> Param("epsilon", DefaultEps),
                                  max_iter |-> Param("max_iterations", DefaultMaxIter),
                                  iteration |-> 0]
                       /\ spc' = "loop"
                       /\ UNCHANGED sres
  /\ UNCHANGED <<lvars, rf, steps>>

Modified1Iterate ==
  /\ rf # Nil /\ rf.method = "Modified Newton-Raphson (Known m)" /\ spc = "loop"
  /\ loc.iteration < loc.max_iter
  /\ LET d == evaluate_first_derivative(rf.equation, loc.x_prev)
         dfx == Rnd(d)
     IN  IF ~is_finite(d)
           THEN /\ SRaise(RoundSigFigError(d), "cannot convert float to integer")
                /\ UNCHANGED <<loc, steps>>
         ELSE IF BelowPow10Neg(dfx, 12)
           THEN /\ SRaise("ValueError", "derivative too small")
                /\ UNCHANGED <<loc, steps>>
         ELSE IF ~is_finite(evaluate(rf.equation,
                     Rnd(RSub(loc.x_prev, Rnd(RMul(loc.m, Rnd(RDiv(loc.fx, dfx))))))))
           THEN /\ SRaise(RoundSigFigError(evaluate(rf.equation,
                     Rnd(RSub(loc.x_prev, Rnd(RMul(loc.m, Rnd(RDiv(loc.fx, dfx)))))))),
                          "cannot convert float to integer")
                /\ UNCHANGED <<loc, steps>>
           ELSE
             LET step == Rnd(RMul(loc.m, Rnd(RDiv(loc.fx, dfx))))
                 x_new == Rnd(RSub(loc.x_prev, step))
                 fx_new == Rnd(evaluate(rf.equation, x_new))
                 rel_error == RoundRel(RelError(RSub(x_new, loc.x_prev), x_new, 10),
                                       rf.precision)
                 st == add_step(steps, [iteration |-> loc.iteration + 1,
                                        x |-> loc.x_prev, fx |-> loc.fx, dfx |-> dfx,
                                        m |-> loc.m, x_new |-> x_new,
                                        rel_error |-> rel_error])
             IN  /\ steps' = st
                 /\ IF RelLt(rel_error, loc.eps)
                      THEN /\ SReturn(Success(x_new, loc.iteration + 1, rel_error,
                                 count_correct_sig_figs(x_new, loc.x_prev, rf.precision),
                                 st))
                           /\ UNCHANGED loc
                      ELSE /\ loc' = [loc EXCEPT !.x_prev = x_new, !.fx = fx_new,
                                                 !.iteration = @ + 1]
                           /\ UNCHANGED <<spc, sres>>
  /\ UNCHANGED <<lvars, rf>>

Modified1Exhausted ==
  /\ rf # Nil /\ rf.method = "Modified Newton-Raphson (Known m)" /\ spc = "loop"
  /\ loc.iteration >= loc.max_iter
  /\ SRaise("ValueError", "failed to converge")
  /\ UNCHANGED <<lvars, rf, loc, steps>>

\* ---- Modified2NewtonRaphson.solve ----
Modified2Start ==
  /\ rf # Nil /\ rf.method = "Modified Newton-Raphson (Unknown m)" /\ spc = "start"
  /\ LET x_prev == Rnd(Param("initial_guess", I2R(1)))
     IN  loc' = [x_prev |-> x_prev, fx |-> Rnd(evaluate(rf.equation, x_prev)),
                 eps |-> Param("epsilon", DefaultEps),
                 max_iter |-> Param("max_iterations", DefaultMaxIter),
                 iteration |-> 0]
  /\ spc' = "loop"
  /\ UNCHANGED <<lvars, rf, steps, sres>>

Modified2Iterate ==
  /\ rf # Nil /\ rf.method = "Modified Newton-Raphson (Unknown m)" /\ spc = "loop"
  /\ loc.iteration < loc.max_iter
  /\ LET f1 == Rnd(evaluate_first_derivative(rf.equation, loc.x_prev))
         f2 == Rnd(evaluate_second_derivative(rf.equation, loc.x_prev))
         numerator == RMul(loc.fx, f1)
         denominator == RSub(RMul(f1, f1), RMul(loc.fx, f2))
     IN  IF BelowPow10Neg(f1, 12)
           THEN /\ SRaise("ValueError", "derivative too small")
                /\ UNCHANGED <<loc, steps>>
           ELSE IF BelowPow10Neg(denominator, 12)
             THEN /\ IF "rel_error" \in DOMAIN loc
                       THEN SReturn(Success(loc.x_prev, loc.iteration + 1,
                                      loc.rel_error,
                                      count_correct_sig_figs(loc.x_prev,
                                        RSub(loc.x_prev, loc.step), rf.precision),
                                      steps))
                       ELSE SRaise("UnboundLocalError", "rel_error")
                  /\ UNCHANGED <<loc, steps>>
             ELSE
               LET step == RDiv(numerator, denominator)
                   x_new == Rnd(RSub(loc.x_prev, step))
                   fx_new == Rnd(evaluate(rf.equation, x_new))
                   rel_error == RoundRel(RelError(RSub(x_new, loc.x_prev), x_new, 10),
                                         rf.precision)
                   st == add_step(steps, [iteration |-> loc.iteration + 1,
                                          x |-> loc.x_prev, fx |-> loc.fx,
                                          dfx |-> f1, d2fx |-> f2,
                                          x_new |-> x_new, rel_error |-> rel_error])
               IN  /\ steps' = st
                   /\ IF RelLt(rel_error, loc.eps)
                        THEN /\ SReturn(Success(x_new, loc.iteration + 1, rel_error,
                                   count_correct_sig_figs(x_new, loc.x_prev, rf.precision),
                                   st))
                             /\ UNCHANGED loc
                        ELSE /\ loc' = (("rel_error" :> rel_error) @@ ("step" :> step) @@
                                        [loc EXCEPT !.x_prev = x_new, !.fx = fx_new,
                                                    !.iteration = @ + 1])
                             /\ UNCHANGED <<spc, sres>>
  /\ UNCHANGED <<lvars, rf>>

Modified2Exhausted ==
  /\ rf # Nil /\ rf.method = "Modified Newton-Raphson (Unknown m)" /\ spc = "loop"
  /\ loc.iteration >= loc.max_iter
  /\ SRaise("ValueError", "failed to converge")
  /\ UNCHANGED <<lvars, rf, loc, steps>>

\* |num| / max(|den|, 10^-tiny)
RelErrorMax(num, den, tiny) ==
  IF BelowPow10Neg(den, tiny) THEN [v |-> RAbs(num), e |-> tiny]
  ELSE [v |-> RAbs(RDiv(num, den)), e |-> 0]

\* ---- Secant.solve ----
\* The mutated denominator guard: it only refuses a denominator that is 0.
DenominatorIsZero(denom) == RIsZero(denom)

\* tol = 10 ** -(self.precision + 1); if abs(denom) < tol
DenominatorTooSmall(denom) == BelowPow10Neg(denom, rf.precision + 1)

SecantStart ==
  /\ rf # Nil /\ rf.method = "Secant" /\ spc = "start"
  /\ LET xi_minus1 == Rnd(Param("initial_guess", I2R(1)))
         xi == Rnd(Param("second_guess", I2R(2)))
         fxi_minus1 == Rnd(evaluate(rf.equation, xi_minus1))
         fxi == Rnd(evaluate(rf.equation, xi))
     IN  loc' = [xi_minus1 |-> xi_minus1, xi |-> xi, fxi_minus1 |-> fxi_minus1,
                 fxi |-> fxi, denom |-> RSub(fxi_minus1, fxi),
                 eps |-> Param("epsilon", DefaultEps),
                 max_iter |-> Param("max_iterations", DefaultMaxIter),
                 iteration |-> 0]
  /\ spc' = "loop"
  /\ UNCHANGED <<lvars, rf, steps, sres>>

SecantIterate ==
  /\ rf # Nil /\ rf.method = "Secant" /\ spc = "loop"
  /\ loc.iteration < loc.max_iter
  /\ IF DenominatorTooSmall(loc.denom)
       THEN /\ SRaise("ValueError", "secant denominator too small")
            /\ UNCHANGED <<loc, steps>>
       ELSE
         LET xi_plus1 == Rnd(RSub(loc.xi,
                               RDiv(RMul(loc.fxi, RSub(loc.xi_minus1, loc.xi)),
                                    loc.denom)))
             rel_error == RoundRel(RelErrorMax(RSub(xi_plus1, loc.xi), xi_plus1, 12),
                                   rf.precision)
             st == add_step(steps, [iteration |-> loc.iteration + 1,
                                    xi_minus1 |-> loc.xi_minus1, xi |-> loc.xi,
                                    fxi_minus1 |-> loc.fxi_minus1, fxi |-> loc.fxi,
                                    xi_plus1 |-> xi_plus1, rel_error |-> rel_error])
         IN  IF RelGtPow10(rel_error, 12)
               THEN /\ SRaise("ValueError", "divergence detected")
                    /\ UNCHANGED <<loc, steps>>
               ELSE
                 /\ steps' = st
                 /\ IF RelLt(rel_error, loc.eps)
                      THEN /\ SReturn(Success(xi_plus1, loc.iteration + 1, rel_error,
                                 count_correct_sig_figs(xi_plus1, loc.xi, rf.precision),
                                 st))
                           /\ UNCHANGED loc
                      ELSE
                        LET fm == Rnd(evaluate(rf.equation, loc.xi))
                            fx == Rnd(evaluate(rf.equation, xi_plus1))
                        IN  /\ loc' = (("xi_plus1" :> xi_plus1) @@
                                       [loc EXCEPT !.xi_minus1 = loc.xi, !.xi = xi_plus1,
                                                   !.fxi_minus1 = fm, !.fxi = fx,
                                                   !.denom = RSub(fm, fx),
                                                   !.iteration = @ + 1])
                            /\ UNCHANGED <<spc, sres>>
  /\ UNCHANGED <<lvars, rf>>

\* Lines 62-65: the message of the error formats xi_plus1, a local of the
\* loop body.
SecantExhausted ==
  /\ rf # Nil /\ rf.method = "Secant" /\ spc = "loop"
  /\ loc.iteration >= loc.max_iter
  /\ IF "xi_plus1" \in DOMAIN loc
       THEN SRaise("ValueError", "failed to converge")
       ELSE SRaise("UnboundLocalError", "xi_plus1")
  /\ UNCHANGED <<lvars, rf, loc, steps>>

\* ---- ModifiedSecant.solve ----
DefaultDelta == <<1, 100>>

ModifiedSecantStart ==
  /\ rf # Nil /\ rf.method = "Modified Secant" /\ spc = "start"
  /\ LET delta == Rnd(Param("delta", DefaultDelta))
         xi == Rnd(Param("initial_guess", I2R(1)))
         xi_plus_delta == Rnd(RAdd(xi, RMul(delta, xi)))
         fxi == Rnd(evaluate(rf.equation, xi))
         fxi_plus_delta == Rnd(evaluate(rf.equation, xi_plus_delta))
     IN  loc' = [delta |-> delta, xi |-> xi, xi_plus_delta |-> xi_plus_delta,
                 fxi |-> fxi, fxi_plus_delta |-> fxi_plus_delta,
                 denom |-> RSub(fxi_plus_delta, fxi),
                 eps |-> Param("epsilon", DefaultEps),
                 max_iter |-> Param("max_iterations", DefaultMaxIter),
                 iteration |-> 0]
  /\ spc' = "loop"
  /\ UNCHANGED <<lvars, rf, steps, sres>>

ModifiedSecantIterate ==
  /\ rf # Nil /\ rf.method = "Modified Secant" /\ spc = "loop"
  /\ loc.iteration < loc.max_iter
  /\ IF DenominatorTooSmall(loc.denom)
       THEN /\ SRaise("ValueError", "modified secant denominator too small")
            /\ UNCHANGED <<loc, steps>>
       ELSE
         LET xi_plus1 == Rnd(RSub(loc.xi,
                               RDiv(RMul(loc.fxi, RMul(loc.delta, loc.xi)),
                                    loc.denom)))
             rel_error == RoundRel(RelErrorMax(RSub(xi_plus1, loc.xi), xi_plus1, 12),
                                   rf.precision)
             st == add_step(steps, [iteration |-> loc.iteration + 1, xi |-> loc.xi,
                                    xi_plus_delta |-> loc.xi_plus_delta,
                                    fxi |-> loc.fxi,
                                    fxi_plus_delta |-> loc.fxi_plus_delta,
                                    xi_plus1 |-> xi_plus1, rel_error |-> rel_error])
         IN  IF RelGtPow10(rel_error, 12)
               THEN /\ SRaise("ValueError", "divergence detected")
                    /\ UNCHANGED <<loc, steps>>
               ELSE
                 /\ steps' = st
                 /\ IF RelLt(rel_error, loc.eps)
                      THEN /\ SReturn(Success(xi_plus1, loc.iteration + 1, rel_error,
                                 count_correct_sig_figs(xi_plus1, loc.xi, rf.precision),
                                 st))
                           /\ UNCHANGED loc
                      ELSE
                        LET xpd == Rnd(RAdd(xi_plus1, RMul(loc.delta, xi_plus1)))
                            fx == Rnd(evaluate(rf.equation, xi_plus1))
                            fpd == Rnd(evaluate(rf.equation, xpd))
                        IN  /\ loc' = (("xi_plus1" :> xi_plus1) @@
                                       [loc EXCEPT !.xi = xi_plus1,
                                                   !.xi_plus_delta = xpd,
                                                   !.fxi = fx, !.fxi_plus_delta = fpd,
                                                   !.denom = RSub(fpd, fx),
                                                   !.iteration = @ + 1])
                            /\ UNCHANGED <<spc, sres>>
  /\ UNCHANGED <<lvars, rf>>

ModifiedSecantExhausted ==
  /\ rf # Nil /\ rf.method = "Modified Secant" /\ spc = "loop"
  /\ loc.iteration >= loc.max_iter
  /\ IF "xi_plus1" \in DOMAIN loc
       THEN SRaise("ValueError", "failed to converge")
       ELSE SRaise("UnboundLocalError", "xi_plus1")
  /\ UNCHANGED <<lvars, rf, loc, steps>>

(***************************************************************************)
(* IterativeMethod.solve.  solver is the instance (A, b, n, precision, the *)
(* initial X, iterations, tol, jacobi); loc holds self.X, the sweep        *)
(* counter it and the locals old_x and error once a sweep has assigned     *)
(* them.  Every diagonal entry of A is non-zero in the systems used here.  *)
(***************************************************************************)
\* AbstractSolver.round_sig_fig at the solver's precision, and
\* AbstractSolver.add_step: the base class of the linear solvers rounds to
\* significant figures and appends to the solver's step list.
LRnd(x) == round_sig_fig(x, solver.precision)

solver_add_step(st, step) == Append(st, step)

\* dot_with_rounding(row, vec, adjust) over the index set js (ascending).
RECURSIVE DotTotal(_, _, _, _)
DotTotal(row, vec, j, hi) ==
  IF j > hi THEN Zero
  ELSE RAdd(LRnd(RMul(row[j], vec[j])), DotTotal(row, vec, j + 1, hi))

dot_with_rounding(row, vec, lo, hi) == LRnd(DotTotal(row, vec, lo, hi))

\* The mutated choice: the values of this sweep whatever the flag.
AlwaysUpdated(X, old_x) == X

\* Lines 66-74: the vector the terms j < i are taken from, old_x when
\* self.jacobi is set and self.X otherwise.
LowerOperand(X, old_x) == IF solver.jacobi THEN old_x ELSE X

\* The sweep over i = 1..n: X after the unknowns i..n have been updated.
\* Jacobi reads old_x on both sides of i, Gauss-Seidel reads the updated X
\* below i.
RECURSIVE SweepFrom(_, _, _)
SweepFrom(X, old_x, i) ==
  IF i > solver.n THEN X
  ELSE LET sum1 == dot_with_rounding(solver.A[i], LowerOperand(X, old_x), 1, i - 1)
           sum2 == dot_with_rounding(solver.A[i], old_x, i + 1, solver.n)
           xi == LRnd(RDiv(RSub(RSub(solver.b[i], sum1), sum2), solver.A[i][i]))
       IN  SweepFrom([X EXCEPT ![i] = xi], old_x, i + 1)

\* r1 <= r2 for values v * 10^e.
RelLe(r1, r2) ==
  IF r1.e = r2.e THEN RLe(r1.v, r2.v)
  ELSE IF r1.e > r2.e
    THEN r1.v[1] * r2.v[2] <= DivPow10(r2.v[1] * r1.v[2], r1.e - r2.e)
    ELSE ~(r2.v[1] * r1.v[2] <= DivPow10(r1.v[1] * r2.v[2] - 1, r2.e - r1.e))

\* |(X[i] - old_x[i]) / (X[i] + 1e-12)|, recorded as v * 10^e: a component
\* with X[i] = 0 is divided by 1e-12 itself.
ErrorAt(X, old_x, i) == RelError(RSub(X[i], old_x[i]), X[i], 12)

RECURSIVE MaxError(_, _, _)
MaxError(X, old_x, i) ==
  IF i = 1 THEN ErrorAt(X, old_x, 1)
  ELSE LET m == MaxError(X, old_x, i - 1)
           e == ErrorAt(X, old_x, i)
       IN  IF RelLe(e, m) THEN m ELSE e

\* |d / (x + 1e-12)| < tol, decided exactly.
ErrLtAt(d, x, tol) ==
  LET L == RDiv(RAbs(d), tol)
  IN  IF RIsZero(x) THEN BelowPow10Neg(L, 12)
      ELSE IF x[1] > 0
        THEN RLe(L, x) \/ BelowPow10Neg(RSub(L, x), 12)
        ELSE LET m == RSub(RAbs(x), L)
             IN  \/ (m[1] > 0 /\ AbovePow10Neg(m, 12))
                 \/ BelowPow10Neg(RAdd(RAbs(x), L), 12)

\* error < self.tol for error = np.max(...).
ErrorBelowTol(X, old_x, tol) ==
  \A i \in 1..Len(X) : ErrLtAt(RSub(X[i], old_x[i]), X[i], tol)

IterativeStart ==
  /\ solver # Nil /\ solver.class = "IterativeMethod" /\ spc = "start"
  /\ steps' = solver_add_step(steps, [operation |-> "Initial Guess", iteration |-> 0,
                               x_values |-> solver.X])
  /\ loc' = [X |-> solver.X, it |-> 0]
  /\ spc' = "loop"
  /\ UNCHANGED <<lvars, rf, sres>>

\* Lines 54-92: one sweep and its "Iteration" record.
IterativeSweep ==
  /\ solver # Nil /\ solver.class = "IterativeMethod" /\ spc = "loop"
  /\ loc.it < solver.iterations
  /\ LET old_x == loc.X
         X == SweepFrom(loc.X, old_x, 1)
         error == MaxError(X, old_x, solver.n)
         converged == ErrorBelowTol(X, old_x, solver.tol)
     IN  /\ steps' = solver_add_step(steps, [operation |-> "Iteration",
                                      iteration |-> loc.it + 1, x_values |-> X,
                                      previous_x |-> old_x, error |-> error,
                                      converged |-> converged])
         /\ loc' = [X |-> X, it |-> loc.it, old_x |-> old_x, error |-> error,
                    converged |-> converged]
  /\ spc' = "check"
  /\ UNCHANGED <<lvars, rf, sres>>

\* Lines 94-110: the convergence check that ends the loop body.
IterativeCheck ==
  /\ solver # Nil /\ solver.class = "IterativeMethod" /\ spc = "check"
  /\ IF loc.converged
       THEN LET st == solver_add_step(steps, [operation |-> "Convergence Achieved",
                                       final_iteration |-> loc.it + 1,
                                       final_solution |-> loc.X,
                                       final_error |-> loc.error])
            IN  /\ steps' = st
                /\ SReturn([success |-> TRUE, sol |-> loc.X,
                            iterations |-> loc.it + 1, error |-> loc.error,
                            steps |-> st])
                /\ UNCHANGED loc
       ELSE /\ loc' = [loc EXCEPT !.it = @ + 1]
            /\ spc' = "loop"
            /\ UNCHANGED <<steps, sres>>
  /\ UNCHANGED <<lvars, rf>>

\* Lines 112-121: error is a local of the loop body; the entry is built
\* from it before add_step is called.
IterativeExhausted ==
  /\ solver # Nil /\ solver.class = "IterativeMethod" /\ spc = "loop"
  /\ loc.it >= solver.iterations
  /\ IF "error" \in DOMAIN loc
       THEN /\ steps' = solver_add_step(steps, [operation |-> "Convergence Failed",
                                         final_iteration |-> solver.iterations,
                                         final_error |-> loc.error,
                                         last_solution |-> loc.X])
            /\ spc' = "raised"
            /\ sres' = [type |-> "ValueError", what |-> "failed to converge",
                        error |-> loc.error]
       ELSE /\ SRaise("UnboundLocalError", "error")
            /\ UNCHANGED steps
  /\ UNCHANGED <<lvars, rf, loc>>

(***************************************************************************)
(* Doolittle.solve.  loc holds self.a, the order vector o, the scaling     *)
(* vector s, the column k, the vectors y and x and the loop index i.  Rows *)
(* and columns are numbered from 1.  No row of A is all zero in the        *)
(* systems used here (validate refuses such systems).                      *)
(***************************************************************************)
DoolittleTolExp == 9

RECURSIVE RowMaxAbs(_, _)
RowMaxAbs(row, j) ==
  IF j = 1 THEN RAbs(row[1])
  ELSE LET m == RowMaxAbs(row, j - 1)
       IN  IF RLt(m, RAbs(row[j])) THEN RAbs(row[j]) ELSE m

\* Doolittle.pivot: the position p of the largest scaled entry of column k
\* among the rows o[k..n]; a later row replaces the candidate only when it
\* is strictly larger.
RECURSIVE PivotFrom(_, _, _, _, _, _, _)
PivotFrom(a, o, sc, k, i, big, p) ==
  IF i > Len(o) THEN p
  ELSE LET dummy == LRnd(RAbs(RDiv(a[o[i]][k], sc[o[i]])))
       IN  IF RLt(big, dummy) THEN PivotFrom(a, o, sc, k, i + 1, dummy, i)
           ELSE PivotFrom(a, o, sc, k, i + 1, big, p)

pivot(a, o, sc, k) ==
  PivotFrom(a, o, sc, k, k + 1, LRnd(RDiv(RAbs(a[o[k]][k]), sc[o[k]])), k)

\* The mutated exchange: o[k] takes the pivot's row and o[p] keeps it.
OverwriteOrder(o, p, k) == [o EXCEPT ![k] = o[p]]

\* Lines 195-198: the entries p and k of the order vector change places.
SwapOrder(o, p, k) == [o EXCEPT ![p] = o[k], ![k] = o[p]]

\* Lines 124-131: the rows below the pivot row get their factor in column
\* k and their updated entries right of it.
EliminateColumn(a, o, k) ==
  LET n == Len(a)
      below == {o[i] : i \in (k + 1)..n}
      factor(r) == LRnd(RDiv(a[r][k], a[o[k]][k]))
  IN  [r \in 1..n |->
         IF r \in below
           THEN [j \in 1..n |->
                   IF j < k THEN a[r][j]
                   ELSE IF j = k THEN factor(r)
                   ELSE LRnd(RSub(a[r][j], RMul(factor(r), a[o[k]][j])))]
           ELSE a[r]]

\* Lines 152-155: sum_val after the terms j..i-1 have been subtracted.
RECURSIVE ForwardSum(_, _, _, _, _, _)
ForwardSum(a, o, y, i, j, sum_val) ==
  IF j >= i THEN sum_val
  ELSE ForwardSum(a, o, y, i, j + 1,
                  LRnd(RSub(sum_val, RMul(a[o[i]][j], y[o[j]]))))

\* Lines 167-169: sum_val after the terms j..n have been added.
RECURSIVE BackwardSum(_, _, _, _, _, _)
BackwardSum(a, o, x, i, j, sum_val) ==
  IF j > Len(a) THEN sum_val
  ELSE BackwardSum(a, o, x, i, j + 1,
                   LRnd(RAdd(sum_val, RMul(a[o[i]][j], x[j]))))

IsDoolittle == solver # Nil /\ solver.class = "Doolittle"

\* Lines 50-54.
DoolittleStart ==
  /\ IsDoolittle /\ spc = "start"
  /\ steps' = solver_add_step(steps, [operation |-> "Initial System",
                               matrix_A |-> solver.A])
  /\ loc' = [a |-> solver.A, o |-> [i \in 1..solver.n |-> i],
             sc |-> [i \in 1..solver.n |-> Zero],
             x |-> [i \in 1..solver.n |-> Zero],
             y |-> [i \in 1..solver.n |-> Zero], k |-> 1, i |-> 1]
  /\ spc' = "scales"
  /\ UNCHANGED <<lvars, rf, sres>>

\* Lines 87-98.
DoolittleScales ==
  /\ IsDoolittle /\ spc = "scales"
  /\ LET sc == [i \in 1..solver.n |-> RowMaxAbs(loc.a[i], solver.n)]
     IN  /\ steps' = solver_add_step(steps, [operation |-> "Scaling Factors Computed",
                                      scales |-> sc])
         /\ loc' = [loc EXCEPT !.sc = sc]
  /\ spc' = IF solver.n > 1 THEN "pivot" ELSE "final_check"
  /\ UNCHANGED <<lvars, rf, sres>>

\* Line 103 and lines 179-210.
DoolittlePivot ==
  /\ IsDoolittle /\ spc = "pivot"
  /\ LET p == pivot(loc.a, loc.o, loc.sc, loc.k)
         o == SwapOrder(loc.o, p, loc.k)
     IN  /\ loc' = [loc EXCEPT !.o = o]
         /\ steps' = IF p # loc.k
                       THEN solver_add_step(steps, [operation |-> "Pivot at Column",
                                             column |-> loc.k, from_row |-> o[p],
                                             to_row |-> o[loc.k]])
                       ELSE steps
  /\ spc' = "pivot_check"
  /\ UNCHANGED <<lvars, rf, sres>>

\* Lines 105-121, and lines 58-59 when the check fails.
DoolittlePivotCheck ==
  /\ IsDoolittle /\ spc = "pivot_check"
  /\ IF BelowPow10Neg(LRnd(RDiv(RAbs(loc.a[loc.o[loc.k]][loc.k]),
                                loc.sc[loc.o[loc.k]])), DoolittleTolExp)
       THEN /\ steps' = solver_add_step(steps, [operation |-> "Pivot Check",
                                         status |-> "FAILED"])
            /\ SRaise("ValueError", "singular")
       ELSE /\ steps' = solver_add_step(steps, [operation |-> "Decompose Column",
                                         column |-> loc.k,
                                         pivot_row |-> loc.o[loc.k],
                                         matrix_state |-> loc.a])
            /\ spc' = "eliminate"
            /\ UNCHANGED sres
  /\ UNCHANGED <<lvars, rf, loc>>

\* Lines 123-131 and the step of the loop of line 101.
DoolittleEliminate ==
  /\ IsDoolittle /\ spc = "eliminate"
  /\ loc' = [loc EXCEPT !.a = EliminateColumn(loc.a, loc.o, loc.k), !.k = @ + 1]
  /\ spc' = IF loc.k + 1 < solver.n THEN "pivot" ELSE "final_check"
  /\ UNCHANGED <<lvars, rf, steps, sres>>

\* Lines 133-140 and 58-65; y[o[0]] = b[o[0]] of line 150.
DoolittleFinalCheck ==
  /\ IsDoolittle /\ spc = "final_check"
  /\ IF BelowPow10Neg(LRnd(RAbs(loc.a[loc.o[solver.n]][solver.n])),
                      DoolittleTolExp)
       THEN /\ steps' = solver_add_step(steps, [operation |-> "Final Pivot Check",
                                         status |-> "FAILED"])
            /\ SRaise("ValueError", "singular")
            /\ UNCHANGED loc
       ELSE /\ steps' = solver_add_step(steps, [operation |-> "Decomposition Complete",
                                         matrix_LU |-> loc.a])
            /\ loc' = [loc EXCEPT !.y[loc.o[1]] = solver.b[loc.o[1]], !.i = 2]
            /\ spc' = "forward"
            /\ UNCHANGED sres
  /\ UNCHANGED <<lvars, rf>>

\* Lines 151-162: one pass of the forward loop.
DoolittleForward ==
  /\ IsDoolittle /\ spc = "forward"
  /\ loc.i <= solver.n
  /\ LET v == ForwardSum(loc.a, loc.o, loc.y, loc.i, 1, solver.b[loc.o[loc.i]])
     IN  /\ loc' = [loc EXCEPT !.y[loc.o[loc.i]] = v, !.i = @ + 1]
         /\ steps' = solver_add_step(steps, [operation |-> "Forward Substitution",
                                      position |-> loc.i, value |-> v])
  /\ UNCHANGED <<lvars, rf, spc, sres>>

\* Line 165: x[n-1], which gets no step of its own.
DoolittleBackStart ==
  /\ IsDoolittle /\ spc = "forward"
  /\ loc.i > solver.n
  /\ loc' = [loc EXCEPT
               !.x[solver.n] = LRnd(RDiv(loc.y[loc.o[solver.n]],
                                         loc.a[loc.o[solver.n]][solver.n])),
               !.i = solver.n - 1]
  /\ spc' = "backward"
  /\ UNCHANGED <<lvars, rf, steps, sres>>

\* Lines 166-177: one pass of the backward loop.
DoolittleBackward ==
  /\ IsDoolittle /\ spc = "backward"
  /\ loc.i >= 1
  /\ LET sum_val == BackwardSum(loc.a, loc.o, loc.x, loc.i, loc.i + 1, Zero)
         v == LRnd(RDiv(RSub(loc.y[loc.o[loc.i]], sum_val),
                        loc.a[loc.o[loc.i]][loc.i]))
     IN  /\ loc' = [loc EXCEPT !.x[loc.i] = v, !.i = @ - 1]
         /\ steps' = solver_add_step(steps, [operation |-> "Backward Substitution",
                                      position |-> loc.i, value |-> v])
  /\ UNCHANGED <<lvars, rf, spc, sres>>

\* Lines 70-80.  The entry and the result both refer to self.x, which is
\* not written again.
DoolittleFinish ==
  /\ IsDoolittle /\ spc = "backward"
  /\ loc.i < 1
  /\ LET st == solver_add_step(steps, [operation |-> "Solution Found",
                                solution |-> loc.x])
     IN  /\ steps' = st
         /\ SReturn([success |-> TRUE, sol |-> loc.x, steps |-> st])
  /\ UNCHANGED <<lvars, rf, loc>>

(***************************************************************************)
(* Crout.solve.  loc holds self.a, the order vector o, the scaling vector  *)
(* sc, x, y and the loop counters (k for the column j of decompose),       *)
(* 1-based.                                                                *)
(***************************************************************************)
CroutTolExp == 9

IsCrout == solver # Nil /\ solver.class = "Crout"

\* Lines 127-129 and 150-152: sum_val after the products
\* a[o[r], k] * a[o[k], c] for k..hi have been subtracted, one rounding each.
RECURSIVE CroutSum(_, _, _, _, _, _, _)
CroutSum(a, o, r, c, k, hi, sum_val) ==
  IF k > hi THEN sum_val
  ELSE CroutSum(a, o, r, c, k + 1, hi,
                LRnd(RSub(sum_val, RMul(a[o[r]][k], a[o[k]][c]))))

\* Lines 126-130: column j of L, in the rows o[j..n].
LowerColumn(a, o, j) ==
  LET rows == {o[i] : i \in j..Len(a)}
      at(r) == CHOOSE i \in j..Len(a) : o[i] = r
  IN  [r \in 1..Len(a) |->
         IF r \in rows
           THEN [a[r] EXCEPT ![j] = CroutSum(a, o, at(r), j, 1, j - 1, a[r][j])]
           ELSE a[r]]

\* Lines 149-153: row j of U, right of the diagonal.
UpperRow(a, o, j) ==
  [a EXCEPT ![o[j]] =
     [i \in 1..Len(a) |->
        IF i <= j THEN a[o[j]][i]
        ELSE LRnd(RDiv(CroutSum(a, o, j, i, 1, j - 1, a[o[j]][i]), a[o[j]][j]))]]

\* Lines 188-190: sum_val after the terms j..n have been subtracted.
RECURSIVE CroutBackSum(_, _, _, _, _, _)
CroutBackSum(a, o, x, i, j, sum_val) ==
  IF j > Len(a) THEN sum_val
  ELSE CroutBackSum(a, o, x, i, j + 1,
                    LRnd(RSub(sum_val, RMul(a[o[i]][j], x[j]))))

\* Lines 53-58.
CroutStart ==
  /\ IsCrout /\ spc = "start"
  /\ steps' = solver_add_step(steps, [operation |-> "Initial System",
                               matrix_A |-> solver.A])
  /\ loc' = [a |-> solver.A, o |-> [i \in 1..solver.n |-> i],
             sc |-> [i \in 1..solver.n |-> Zero],
             x |-> [i \in 1..solver.n |-> Zero],
             y |-> [i \in 1..solver.n |-> Zero], k |-> 1, i |-> 1]
  /\ spc' = "scales"
  /\ UNCHANGED <<lvars, rf, sres>>

\* Lines 94-105.
CroutScales ==
  /\ IsCrout /\ spc = "scales"
  /\ LET sc == [i \in 1..solver.n |-> RowMaxAbs(loc.a[i], solver.n)]
     IN  /\ steps' = solver_add_step(steps, [operation |-> "Scaling Factors Computed",
                                      scales |-> sc])
         /\ loc' = [loc EXCEPT !.sc = sc]
  /\ spc' = "pivot"
  /\ UNCHANGED <<lvars, rf, sres>>

\* Line 111 and lines 200-235.
CroutPivot ==
  /\ IsCrout /\ spc = "pivot"
  /\ LET p == pivot(loc.a, loc.o, loc.sc, loc.k)
         o == IF p # loc.k THEN SwapOrder(loc.o, p, loc.k) ELSE loc.o
     IN  /\ loc' = [loc EXCEPT !.o = o]
         /\ steps' = IF p # loc.k
                       THEN solver_add_step(steps, [operation |-> "Pivot at Column",
                                             column |-> loc.k, from_row |-> o[p],
                                             to_row |-> o[loc.k]])
                       ELSE steps
  /\ spc' = "pivot_check"
  /\ UNCHANGED <<lvars, rf, sres>>

\* Lines 114-123, and lines 64-65 when the check fails.
CroutPivotCheck ==
  /\ IsCrout /\ spc = "pivot_check"
  /\ IF BelowPow10Neg(LRnd(RDiv(RAbs(loc.a[loc.o[loc.k]][loc.k]),
                                loc.sc[loc.o[loc.k]])), CroutTolExp)
       THEN /\ steps' = solver_add_step(steps, [operation |-> "Pivot Check",
                                         status |-> "FAILED"])
            /\ SRaise("ValueError", "singular")
       ELSE /\ spc' = "lower"
            /\ UNCHANGED <<steps, sres>>
  /\ UNCHANGED <<lvars, rf, loc>>

\* Lines 125-137.
CroutLowerColumn ==
  /\ IsCrout /\ spc = "lower"
  /\ loc' = [loc EXCEPT !.a = LowerColumn(loc.a, loc.o, loc.k)]
  /\ steps' = solver_add_step(steps, [operation |-> "Compute L Column",
                               column |-> loc.k, pivot_row |-> loc.o[loc.k]])
  /\ spc' = "upper"
  /\ UNCHANGED <<lvars, rf, sres>>

\* Lines 139-160, lines 64-65 when the check fails, and the step of the
\* loop of line 108.
CroutUpperRow ==
  /\ IsCrout /\ spc = "upper"
  /\ IF BelowPow10Neg(loc.a[loc.o[loc.k]][loc.k], CroutTolExp)
       THEN /\ steps' = solver_add_step(steps, [operation |-> "Diagonal Check",
                                         status |-> "FAILED"])
            /\ SRaise("ValueError", "singular")
            /\ UNCHANGED loc
       ELSE /\ LET a == UpperRow(loc.a, loc.o, loc.k)
               IN  /\ loc' = [loc EXCEPT !.a = a, !.k = @ + 1]
                   /\ steps' = solver_add_step(steps,
                                 [operation |-> "Compute U Row", row |-> loc.k,
                                  matrix_state |-> a])
            /\ spc' = IF loc.k + 1 <= solver.n THEN "pivot" ELSE "decomposed"
            /\ UNCHANGED sres
  /\ UNCHANGED <<lvars, rf>>

\* Lines 67-71, and lines 168-170 of substitute.
CroutDecomposed ==
  /\ IsCrout /\ spc = "decomposed"
  /\ steps' = solver_add_step(steps, [operation |-> "Decomposition Complete",
                               matrix_LU |-> loc.a])
  /\ loc' = [loc EXCEPT !.y[loc.o[1]] = LRnd(RDiv(solver.b[loc.o[1]],
                                                  loc.a[loc.o[1]][1])),
                        !.i = 2]
  /\ spc' = "forward"
  /\ UNCHANGED <<lvars, rf, sres>>

\* Lines 171-182: one pass of the forward loop.
CroutForward ==
  /\ IsCrout /\ spc = "forward"
  /\ loc.i <= solver.n
  /\ LET sum_val == ForwardSum(loc.a, loc.o, loc.y, loc.i, 1, solver.b[loc.o[loc.i]])
         v == LRnd(RDiv(sum_val, loc.a[loc.o[loc.i]][loc.i]))
     IN  /\ loc' = [loc EXCEPT !.y[loc.o[loc.i]] = v, !.i = @ + 1]
         /\ steps' = solver_add_step(steps, [operation |-> "Forward Substitution",
                                      position |-> loc.i, value |-> v])
  /\ UNCHANGED <<lvars, rf, spc, sres>>

\* Line 185: x[n-1], which gets no step of its own.
CroutBackStart ==
  /\ IsCrout /\ spc = "forward"
  /\ loc.i > solver.n
  /\ loc' = [loc EXCEPT !.x[solver.n] = loc.y[loc.o[solver.n]], !.i = solver.n - 1]
  /\ spc' = "backward"
  /\ UNCHANGED <<lvars, rf, steps, sres>>

\* Lines 186-197: one pass of the backward loop.
CroutBackward ==
  /\ IsCrout /\ spc = "backward"
  /\ loc.i >= 1
  /\ LET v == CroutBackSum(loc.a, loc.o, loc.x, loc.i, loc.i + 1, loc.y[loc.o[loc.i]])
     IN  /\ loc' = [loc EXCEPT !.x[loc.i] = v, !.i = @ - 1]
         /\ steps' = solver_add_step(steps, [operation |-> "Backward Substitution",
                                      position |-> loc.i, value |-> v])
  /\ UNCHANGED <<lvars, rf, spc, sres>>

\* Lines 76-88.
CroutFinish ==
  /\ IsCrout /\ spc = "backward"
  /\ loc.i < 1
  /\ LET st == solver_add_step(steps, [operation |-> "Solution Found",
                                solution |-> loc.x])
     IN  /\ steps' = st
         /\ SReturn([success |-> TRUE, sol |-> loc.x, steps |-> st])
  /\ UNCHANGED <<lvars, rf, loc>>

(***************************************************************************)
(* Cholesky.solve.                                                         *)
(***************************************************************************)
IsCholesky == solver # Nil /\ solver.class = "Cholesky"

\* A.shape[0] != A.shape[1] is false.
IsSquareShape(a) == Len(a) = Len(a[1])

\* np.isclose(x, y, atol=1e-9), with numpy's default rtol of 1e-5:
\* |x - y| <= 1e-9 + 1e-5 * |y|.
IsClose(x, y) ==
  LET t == RSub(RAbs(RSub(x, y)), RMul(<<1, 100000>>, RAbs(y)))
  IN  t[1] <= 0 \/ ~AbovePow10Neg(t, 9)

\* np.allclose(A, A.T, atol=1e-9)
IsSymmetric(a) ==
  \A i \in 1..Len(a) : \A j \in 1..Len(a) : IsClose(a[i][j], a[j][i])

\* The determinant of the leading k by k block, k <= 3.
LeadingMinor(a, k) ==
  IF k = 1 THEN a[1][1]
  ELSE IF k = 2 THEN RSub(RMul(a[1][1], a[2][2]), RMul(a[1][2], a[2][1]))
  ELSE RAdd(RSub(RMul(a[1][1], RSub(RMul(a[2][2], a[3][3]), RMul(a[2][3], a[3][2]))),
                 RMul(a[1][2], RSub(RMul(a[2][1], a[3][3]), RMul(a[2][3], a[3][1])))),
            RMul(a[1][3], RSub(RMul(a[2][1], a[3][2]), RMul(a[2][2], a[3][1]))))

\* The mutated definiteness test: it lets every matrix through.
NoEigenvalueTest(a) == TRUE

\* not np.any(np.linalg.eigvals(A) <= 0).  The matrix has passed the symmetry
\* test, so its eigenvalues are all positive exactly when its leading
\* minors are; the systems of this module have no zero eigenvalue, where
\* the sign of a computed eigenvalue would depend on rounding.
AllEigenvaluesPositive(a) == \A k \in 1..Len(a) : LeadingMinor(a, k)[1] > 0

\* round_sig_fig(math.sqrt(v)) for v > 0: the value k / 10^digits nearest to
\* the square root, with digits = precision - 1 - floor(log10(sqrt(v))).
SqrtDigits(v, n) ==
  LET l == FloorLog10(v)
  IN  n - 1 - (IF l >= 0 THEN l \div 2 ELSE -((1 - l) \div 2))

SqrtRound(v, n) ==
  LET dg == SqrtDigits(v, n)
      sc == 4 * Pow10(2 * dg)
      k == CHOOSE c \in Pow10(n - 1)..Pow10(n) :
             /\ RLe(<<(2 * c - 1) * (2 * c - 1), sc>>, v)
             /\ RLt(v, <<(2 * c + 1) * (2 * c + 1), sc>>)
  IN  Rat(k, Pow10(dg))

\* Line 99: sum(L[i][k] * L[j][k] for k in range(j)).
RECURSIVE CholeskySum(_, _, _, _)
CholeskySum(L, i, j, k) ==
  IF k >= j THEN Zero ELSE RAdd(RMul(L[i][k], L[j][k]), CholeskySum(L, i, j, k + 1))

\* Line 136: sum(L[i][j] * y[j] for j in range(i)).
RECURSIVE CholeskyForwardSum(_, _, _, _)
CholeskyForwardSum(L, y, i, j) ==
  IF j >= i THEN Zero
  ELSE RAdd(RMul(L[i][j], y[j]), CholeskyForwardSum(L, y, i, j + 1))

\* Line 156: sum(L[j][i] * x[j] for j in range(i + 1, self.n)).
RECURSIVE CholeskyBackwardSum(_, _, _, _)
CholeskyBackwardSum(L, x, i, j) ==
  IF j > Len(L) THEN Zero
  ELSE RAdd(RMul(L[j][i], x[j]), CholeskyBackwardSum(L, x, i, j + 1))

\* Lines 48-59.
CholeskyStart ==
  /\ IsCholesky /\ spc = "start"
  /\ steps' = solver_add_step(steps, [operation |-> "Initial System",
                               matrix_A |-> solver.A, vector_b |-> solver.b])
  /\ spc' = "square_check"
  /\ UNCHANGED <<lvars, rf, loc, sres>>

\* Lines 61-69.
CholeskySquareCheck ==
  /\ IsCholesky /\ spc = "square_check"
  /\ IF ~IsSquareShape(solver.A)
       THEN /\ SRaise("ValueError", "Matrix must be square")
            /\ UNCHANGED steps
       ELSE /\ steps' = solver_add_step(steps, [operation |-> "Matrix Check",
                                         status |-> "PASS"])
            /\ spc' = "symmetry_check"
            /\ UNCHANGED sres
  /\ UNCHANGED <<lvars, rf, loc>>

\* Lines 71-79.
CholeskySymmetryCheck ==
  /\ IsCholesky /\ spc = "symmetry_check"
  /\ IF ~IsSymmetric(solver.A)
       THEN /\ SRaise("ValueError", "Matrix must be symmetric")
            /\ UNCHANGED steps
       ELSE /\ steps' = solver_add_step(steps, [operation |-> "Symmetry Check",
                                         status |-> "PASS"])
            /\ spc' = "definite_check"
            /\ UNCHANGED sres
  /\ UNCHANGED <<lvars, rf, loc>>

\* Lines 81-94.
CholeskyDefiniteCheck ==
  /\ IsCholesky /\ spc = "definite_check"
  /\ IF ~AllEigenvaluesPositive(solver.A)
       THEN /\ SRaise("ValueError", "Matrix must be positive definite")
            /\ UNCHANGED <<steps, loc>>
       ELSE /\ steps' = solver_add_step(steps,
                          [operation |-> "Positive Definiteness Check",
                           status |-> "PASS"])
            /\ loc' = [L |-> [i \in 1..solver.n |-> [j \in 1..solver.n |-> Zero]],
                       i |-> 1, j |-> 1]
            /\ spc' = "decompose"
            /\ UNCHANGED sres
  /\ UNCHANGED <<lvars, rf>>

\* Lines 96-125: one element of L.
CholeskyElement ==
  /\ IsCholesky /\ spc = "decompose"
  /\ loc.i <= solver.n
  /\ LET i == loc.i
         j == loc.j
         sum_val == LRnd(CholeskySum(loc.L, i, j, 1))
         ni == IF j = i THEN i + 1 ELSE i
         nj == IF j = i THEN 1 ELSE j + 1
     IN  IF i = j
           THEN IF RSub(solver.A[i][i], sum_val)[1] < 0
                  THEN /\ SRaise("ValueError", "math domain error")
                       /\ UNCHANGED <<loc, steps>>
                  ELSE LET d == RSub(solver.A[i][i], sum_val)
                           val == IF RIsZero(d) THEN Zero
                                  ELSE SqrtRound(d, solver.precision)
                       IN  /\ loc' = [loc EXCEPT !.L[i][j] = val, !.i = ni, !.j = nj]
                           /\ steps' = solver_add_step(steps,
                                [operation |-> "Diagonal Element", index_i |-> i - 1,
                                 index_j |-> j - 1, value |-> val])
                           /\ UNCHANGED <<spc, sres>>
           ELSE IF RIsZero(loc.L[j][j])
                  THEN /\ SRaise("ValueError", "Matrix is not positive definite")
                       /\ UNCHANGED <<loc, steps>>
                  ELSE LET val == LRnd(RDiv(RSub(solver.A[i][j], sum_val), loc.L[j][j]))
                       IN  /\ loc' = [loc EXCEPT !.L[i][j] = val, !.i = ni, !.j = nj]
                           /\ steps' = solver_add_step(steps,
                                [operation |-> "Off-diagonal Element",
                                 index_i |-> i - 1, index_j |-> j - 1, value |-> val])
                           /\ UNCHANGED <<spc, sres>>
  /\ UNCHANGED <<lvars, rf>>

\* Lines 127-134.
CholeskyDecomposed ==
  /\ IsCholesky /\ spc = "decompose"
  /\ loc.i > solver.n
  /\ steps' = solver_add_step(steps, [operation |-> "Decomposition Complete",
                               L_matrix |-> loc.L])
  /\ loc' = [L |-> loc.L, y |-> [i \in 1..solver.n |-> Zero], i |-> 1]
  /\ spc' = "forward"
  /\ UNCHANGED <<lvars, rf, sres>>

\* Lines 135-145: one pass of the forward loop.  A zero on the diagonal of
\* L makes the quotient of the two floats an infinity or a nan, which
\* round_sig_fig cannot round.
CholeskyForward ==
  /\ IsCholesky /\ spc = "forward"
  /\ loc.i <= solver.n
  /\ LET sum_val == LRnd(CholeskyForwardSum(loc.L, loc.y, loc.i, 1))
         num == RSub(solver.b[loc.i], sum_val)
     IN  IF RIsZero(loc.L[loc.i][loc.i])
           THEN /\ SRaise(RoundSigFigError(IF RIsZero(num) THEN NaN ELSE PosInf),
                          "cannot convert float to integer")
                /\ UNCHANGED <<loc, steps>>
           ELSE LET v == LRnd(RDiv(num, loc.L[loc.i][loc.i]))
                IN  /\ loc' = [loc EXCEPT !.y[loc.i] = v, !.i = @ + 1]
                    /\ steps' = solver_add_step(steps,
                                  [operation |-> "Forward Substitution",
                                   position |-> loc.i - 1, value |-> v])
                    /\ UNCHANGED <<spc, sres>>
  /\ UNCHANGED <<lvars, rf>>

\* Lines 147-154.
CholeskyForwardDone ==
  /\ IsCholesky /\ spc = "forward"
  /\ loc.i > solver.n
  /\ steps' = solver_add_step(steps, [operation |-> "Forward Substitution Complete",
                               y_vector |-> loc.y])
  /\ loc' = [L |-> loc.L, y |-> loc.y, x |-> [i \in 1..solver.n |-> Zero],
             i |-> solver.n]
  /\ spc' = "backward"
  /\ UNCHANGED <<lvars, rf, sres>>

\* Lines 155-165: one pass of the backward loop.
CholeskyBackward ==
  /\ IsCholesky /\ spc = "backward"
  /\ loc.i >= 1
  /\ LET sum_val == LRnd(CholeskyBackwardSum(loc.L, loc.x, loc.i, loc.i + 1))
         v == LRnd(RDiv(RSub(loc.y[loc.i], sum_val), loc.L[loc.i][loc.i]))
     IN  /\ loc' = [loc EXCEPT !.x[loc.i] = v, !.i = @ - 1]
         /\ steps' = solver_add_step(steps, [operation |-> "Backward Substitution",
                                      position |-> loc.i - 1, value |-> v])
  /\ UNCHANGED <<lvars, rf, spc, sres>>

\* Lines 167-178.
CholeskyFinish ==
  /\ IsCholesky /\ spc = "backward"
  /\ loc.i < 1
  /\ LET st == solver_add_step(steps, [operation |-> "Solution Found",
                                solution |-> loc.x])
     IN  /\ steps' = st
         /\ SReturn([success |-> TRUE, sol |-> loc.x, steps |-> st])
  /\ UNCHANGED <<lvars, rf, loc>>

(***************************************************************************)
(* GaussElimination.solve and GaussJordan.solve.                           *)
(***************************************************************************)
GaussTolExp == 10

IsGauss == solver # Nil /\ solver.class = "GaussElimination"

IsJordan == solver # Nil /\ solver.class = "GaussJordan"

\* AbstractSolver.get_scales: the largest magnitude of each row of self.A.
get_scales(a) == [i \in 1..Len(a) |-> RowMaxAbs(a[i], Len(a[i]))]

\* np.ones(self.n)
Ones(n) == [i \in 1..n |-> I2R(1)]

\* abs(A[i][k]) / scales[i] > max_ratio, for max_ratio = abs(A[p][k]) /
\* scales[p] (or 0 while p = 0).  A quotient by a zero scale is a nan, which
\* no comparison finds larger.
RatioLarger(a, sc, k, i, p) ==
  /\ ~RIsZero(sc[i])
  /\ IF p = 0 THEN ~RIsZero(a[i][k])
     ELSE RLt(RDiv(RAbs(a[p][k]), sc[p]), RDiv(RAbs(a[i][k]), sc[i]))

\* The loop of lines 70-74: the candidate p after the rows i..n, p = 0
\* while max_ratio is still 0.
RECURSIVE PivotRowFrom(_, _, _, _, _)
PivotRowFrom(a, sc, k, i, p) ==
  IF i > Len(a) THEN p
  ELSE PivotRowFrom(a, sc, k, i + 1, IF RatioLarger(a, sc, k, i, p) THEN i ELSE p)

\* pivot_row after the loop: k when no ratio exceeded 0.
pivot_row(a, sc, k) ==
  LET p == PivotRowFrom(a, sc, k, k, 0) IN IF p = 0 THEN k ELSE p

SwapEntries(v, i, j) == [v EXCEPT ![i] = v[j], ![j] = v[i]]

\* The mutated exchange: the scale factors stay where they are.
KeepScales(sc, k, p) == sc

\* scales[[k, pivot_row]] = scales[[pivot_row, k]]
SwapScales(sc, k, p) == SwapEntries(sc, k, p)

\* subtract_with_rounding(row[from:], factor * pivot[from:])
SubtractRow(row, prow, factor, from) ==
  [j \in 1..Len(row) |->
     IF j < from THEN row[j] ELSE LRnd(RSub(row[j], RMul(factor, prow[j])))]

\* np.dot(A[i, i + 1:], x[i + 1:])
RECURSIVE DotTail(_, _, _)
DotTail(row, x, j) ==
  IF j > Len(row) THEN Zero ELSE RAdd(RMul(row[j], x[j]), DotTail(row, x, j + 1))

\* The mutated test: no pivot is ever refused.
NeverZeroPivot(v) == FALSE

\* abs(A[k][k]) < 1e-10 (lines 93 and 117).
ZeroPivot(v) == BelowPow10Neg(v, GaussTolExp)

\* Lines 42-51.
GaussStart ==
  /\ IsGauss /\ spc = "start"
  /\ steps' = solver_add_step(steps, [operation |-> "Initial System",
                               matrix_A |-> solver.A, vector_b |-> solver.b])
  /\ loc' = [A |-> solver.A, b |-> solver.b]
  /\ spc' = "scales"
  /\ UNCHANGED <<lvars, rf, sres>>

\* Lines 53-61.
GaussScales ==
  /\ IsGauss /\ spc = "scales"
  /\ LET sc == IF solver.use_scaling THEN get_scales(solver.A) ELSE Ones(solver.n)
     IN  /\ loc' = [A |-> loc.A, b |-> loc.b, scales |-> sc, k |-> 1, i |-> 1,
                    x |-> [i \in 1..solver.n |-> Zero]]
         /\ steps' = IF solver.use_scaling
                       THEN solver_add_step(steps,
                              [operation |-> "Scaling Factors Computed", scales |-> sc])
                       ELSE steps
  /\ spc' = IF solver.n > 1 THEN "pivot" ELSE "final_check"
  /\ UNCHANGED <<lvars, rf, sres>>

\* Lines 66-90.
GaussPivot ==
  /\ IsGauss /\ spc = "pivot"
  /\ LET p == pivot_row(loc.A, loc.scales, loc.k)
         A == SwapRows(loc.A, loc.k, p)
         b == SwapEntries(loc.b, loc.k, p)
     IN  /\ loc' = [loc EXCEPT !.A = A, !.b = b,
                               !.scales = IF solver.use_scaling
                                            THEN SwapScales(loc.scales, loc.k, p)
                                            ELSE loc.scales]
         /\ steps' = IF p # loc.k
                       THEN solver_add_step(steps,
                              [operation |-> "Pivot: Swap Rows", from_row |-> loc.k - 1,
                               to_row |-> p - 1, matrix_A |-> A, vector_b |-> b])
                       ELSE steps
  /\ spc' = "pivot_check"
  /\ UNCHANGED <<lvars, rf, sres>>

\* Lines 92-97.
GaussPivotCheck ==
  /\ IsGauss /\ spc = "pivot_check"
  /\ IF ZeroPivot(loc.A[loc.k][loc.k])
       THEN /\ SRaise("ValueError", "zero pivot")
            /\ UNCHANGED loc
       ELSE /\ loc' = [loc EXCEPT !.i = loc.k + 1]
            /\ spc' = "eliminate"
            /\ UNCHANGED sres
  /\ UNCHANGED <<lvars, rf, steps>>

\* Lines 97-114: one row below the pivot, and the step of the loops of
\* lines 64 and 97.
GaussEliminateRow ==
  /\ IsGauss /\ spc = "eliminate"
  /\ LET k == loc.k
         i == loc.i
         factor == LRnd(RDiv(loc.A[i][k], loc.A[k][k]))
         row == SubtractRow(loc.A[i], loc.A[k], factor, k)
         bi == LRnd(RSub(loc.b[i], RMul(factor, loc.b[k])))
     IN  /\ steps' = solver_add_step(steps,
                       [operation |-> "Eliminate Row", pivot_row |-> k - 1,
                        elimination_row |-> i - 1, factor |-> factor,
                        matrix_A |-> loc.A, vector_b |-> loc.b])
         /\ loc' = [loc EXCEPT !.A[i] = row, !.b[i] = bi,
                               !.i = IF i < solver.n THEN i + 1 ELSE @,
                               !.k = IF i < solver.n THEN @ ELSE k + 1]
         /\ spc' = IF i < solver.n THEN "eliminate"
                   ELSE IF k + 1 <= solver.n - 1 THEN "pivot" ELSE "final_check"
  /\ UNCHANGED <<lvars, rf, sres>>

\* Lines 116-128.
GaussFinalCheck ==
  /\ IsGauss /\ spc = "final_check"
  /\ IF ZeroPivot(loc.A[solver.n][solver.n])
       THEN /\ SRaise("ValueError", "zero pivot in final row")
            /\ UNCHANGED <<loc, steps>>
       ELSE /\ steps' = solver_add_step(steps,
                          [operation |-> "Forward Elimination Complete",
                           matrix_A |-> loc.A, vector_b |-> loc.b])
            /\ loc' = [loc EXCEPT !.i = solver.n]
            /\ spc' = "back"
            /\ UNCHANGED sres
  /\ UNCHANGED <<lvars, rf>>

\* Lines 130-141: one pass of the back-substitution loop.
GaussBack ==
  /\ IsGauss /\ spc = "back"
  /\ loc.i >= 1
  /\ LET sum_ax == DotTail(loc.A[loc.i], loc.x, loc.i + 1)
         v == LRnd(LRnd(RDiv(RSub(loc.b[loc.i], sum_ax), loc.A[loc.i][loc.i])))
     IN  /\ loc' = [loc EXCEPT !.x[loc.i] = v, !.i = @ - 1]
         /\ steps' = solver_add_step(steps,
                       [operation |-> "Back Substitution", index |-> loc.i - 1,
                        value |-> v])
  /\ UNCHANGED <<lvars, rf, spc, sres>>

\* Lines 143-154.
GaussFinish ==
  /\ IsGauss /\ spc = "back"
  /\ loc.i < 1
  /\ LET st == solver_add_step(steps, [operation |-> "Solution Found",
                                solution |-> loc.x])
     IN  /\ steps' = st
         /\ SReturn([success |-> TRUE, sol |-> loc.x, steps |-> st])
  /\ UNCHANGED <<lvars, rf, loc>>

\* GaussJordan.solve, lines 45-54.
JordanStart ==
  /\ IsJordan /\ spc = "start"
  /\ steps' = solver_add_step(steps, [operation |-> "Initial System",
                               matrix_A |-> solver.A, vector_b |-> solver.b])
  /\ loc' = [A |-> solver.A, b |-> solver.b]
  /\ spc' = "scales"
  /\ UNCHANGED <<lvars, rf, sres>>

\* Lines 56-64.
JordanScales ==
  /\ IsJordan /\ spc = "scales"
  /\ LET sc == IF solver.use_scaling THEN get_scales(solver.A) ELSE Ones(solver.n)
     IN  /\ loc' = [A |-> loc.A, b |-> loc.b, scales |-> sc, k |-> 1, i |-> 1]
         /\ steps' = IF solver.use_scaling
                       THEN solver_add_step(steps,
                              [operation |-> "Scaling Factors Computed", scales |-> sc])
                       ELSE steps
  /\ spc' = "pivot"
  /\ UNCHANGED <<lvars, rf, sres>>

\* Lines 69-93.
JordanPivot ==
  /\ IsJordan /\ spc = "pivot"
  /\ LET p == pivot_row(loc.A, IF solver.use_scaling THEN loc.scales
                               ELSE Ones(solver.n), loc.k)
         A == SwapRows(loc.A, loc.k, p)
         b == SwapEntries(loc.b, loc.k, p)
     IN  /\ loc' = [loc EXCEPT !.A = A, !.b = b,
                               !.scales = IF solver.use_scaling
                                            THEN SwapScales(loc.scales, loc.k, p)
                                            ELSE loc.scales]
         /\ steps' = IF p # loc.k
                       THEN solver_add_step(steps,
                              [operation |-> "Pivot: Swap Rows", from_row |-> loc.k - 1,
                               to_row |-> p - 1, matrix_A |-> A, vector_b |-> b])
                       ELSE steps
  /\ spc' = "normalize"
  /\ UNCHANGED <<lvars, rf, sres>>

\* The first row other than k from row i on, n + 1 when there is none.
NextOtherRow(i, k, n) == IF i = k THEN i + 1 ELSE i

\* Lines 95-111, and the head of the loop of line 114.
JordanNormalize ==
  /\ IsJordan /\ spc = "normalize"
  /\ LET k == loc.k
         pivot_value == loc.A[k][k]
         row == [j \in 1..solver.n |-> LRnd(RDiv(loc.A[k][j], pivot_value))]
         bk == LRnd(RDiv(loc.b[k], pivot_value))
         i == NextOtherRow(1, k, solver.n)
     IN  IF BelowPow10Neg(pivot_value, GaussTolExp)
           THEN /\ SRaise("ValueError", "zero pivot")
                /\ UNCHANGED <<loc, steps>>
           ELSE /\ steps' = solver_add_step(steps,
                              [operation |-> "Normalize Row", pivot_row |-> k - 1,
                               pivot_value |-> pivot_value,
                               matrix_A |-> [loc.A EXCEPT ![k] = row],
                               vector_b |-> [loc.b EXCEPT ![k] = bk]])
                /\ loc' = [loc EXCEPT !.A[k] = row, !.b[k] = bk,
                                      !.i = IF i <= solver.n THEN i ELSE 1,
                                      !.k = IF i <= solver.n THEN k ELSE k + 1]
                /\ spc' = IF i <= solver.n THEN "eliminate"
                          ELSE IF k + 1 <= solver.n THEN "pivot" ELSE "reduced"
                /\ UNCHANGED sres
  /\ UNCHANGED <<lvars, rf>>

\* Lines 114-131: one row other than the pivot row, and the step of the
\* loops of lines 67 and 114.
JordanEliminateRow ==
  /\ IsJordan /\ spc = "eliminate"
  /\ LET k == loc.k
         i == loc.i
         factor == loc.A[i][k]
         acts == AbovePow10Neg(factor, GaussTolExp)
         row == SubtractRow(loc.A[i], loc.A[k], factor, 1)
         bi == LRnd(RSub(loc.b[i], RMul(factor, loc.b[k])))
         ni == NextOtherRow(i + 1, k, solver.n)
     IN  /\ steps' = IF acts
                       THEN solver_add_step(steps,
                              [operation |-> "Eliminate Row", pivot_row |-> k - 1,
                               elimination_row |-> i - 1, factor |-> factor,
                               matrix_A |-> loc.A, vector_b |-> loc.b])
                       ELSE steps
         /\ loc' = [loc EXCEPT !.A[i] = IF acts THEN row ELSE @,
                               !.b[i] = IF acts THEN bi ELSE @,
                               !.i = IF ni <= solver.n THEN ni ELSE 1,
                               !.k = IF ni <= solver.n THEN k ELSE k + 1]
         /\ spc' = IF ni <= solver.n THEN "eliminate"
                   ELSE IF k + 1 <= solver.n THEN "pivot" ELSE "reduced"
  /\ UNCHANGED <<lvars, rf, sres>>

\* Lines 133-145.
JordanReduced ==
  /\ IsJordan /\ spc = "reduced"
  /\ steps' = solver_add_step(steps,
                [operation |-> "Reduced Row Echelon Form (RREF)",
                 matrix_A |-> loc.A, vector_b |-> loc.b])
  /\ loc' = [A |-> loc.A, b |-> loc.b, scales |-> loc.scales, k |-> loc.k,
             i |-> loc.i, x |-> [i \in 1..solver.n |-> LRnd(loc.b[i])]]
  /\ spc' = "finish"
  /\ UNCHANGED <<lvars, rf, sres>>

\* Lines 147-158.
JordanFinish ==
  /\ IsJordan /\ spc = "finish"
  /\ LET st == solver_add_step(steps, [operation |-> "Solution Found",
                                solution |-> loc.x])
     IN  /\ steps' = st
         /\ SReturn([success |-> TRUE, sol |-> loc.x, steps |-> st])
  /\ UNCHANGED <<lvars, rf, loc>>

(***************************************************************************)
(* RootFinderFactory and the root-finding requests.                        *)
(***************************************************************************)
METHODS ==
  {"Bisection", "False-Position", "Fixed Point", "Newton-Raphson",
   "Modified Newton-Raphson (Known m)", "Modified Newton-Raphson (Unknown m)",
   "Secant", "Modified Secant"}

\* RootFinderFactory.get_solver: an unregistered method is refused, a
\* registered one constructs the finder around the request's fields.
RootFinderGetSolver ==
  /\ rf # Nil /\ spc = "factory"
  /\ IF rf.method \in METHODS
       THEN spc' = "start" /\ UNCHANGED sres
       ELSE SRaise("ValueError", "not implemented")
  /\ UNCHANGED <<lvars, rf, loc, steps>>

Poly(c) == [i \in 1..Len(c) |-> I2R(c[i])]

XSquaredMinus4 == Poly(<<-4, 0, 1>>)
XSquaredPlus4 == Poly(<<4, 0, 1>>)
XSquaredPlus1 == Poly(<<1, 0, 1>>)
XSquared == Poly(<<0, 0, 1>>)
XIdentity == Poly(<<0, 1>>)
TwoX == Poly(<<0, 2>>)
\* 1.5*x
ThreeHalvesX == <<Zero, <<3, 2>>>>
\* x/100000
XOver100000 == <<Zero, <<1, 100000>>>>
\* x*1e200*1e200 - 3
HugeXMinus3 == <<I2R(-3), Huge>>
\* x*x*1e200*1e200 + x - 3
HugeXSquaredPlusXMinus3 == <<I2R(-3), I2R(1), Huge>>
XMinus1 == Poly(<<-1, 1>>)
XPlus1 == Poly(<<1, 1>>)
HalfXPlus1 == <<I2R(1), <<1, 2>>>>

Budgets == 0..MaxIter

Tolerances == {<<1, 100>>, <<1, 2>>}

Stopping == {("epsilon" :> e) @@ ("max_iterations" :> k) :
               e \in Tolerances, k \in Budgets}

BracketParams ==
  {("interval_a" :> I2R(i[1])) @@ ("interval_b" :> I2R(i[2])) @@ st :
     i \in {<<0, 5>>, <<0, 2>>, <<-2, 2>>, <<1, 5>>}, st \in Stopping}

GuessParams(guesses) ==
  {("initial_guess" :> g) @@ st : g \in guesses, st \in Stopping}

RootFinderRequests ==
  {[method |-> m, equation |-> f, params |-> p] :
     m \in {"Bisection", "False-Position"},
     f \in {XSquaredMinus4, XMinus1, XSquaredPlus1}, p \in BracketParams}
  \cup
  {[method |-> "Fixed Point", equation |-> f, params |-> p] :
     f \in {HalfXPlus1, XPlus1, XSquaredMinus4},
     p \in GuessParams({I2R(1), I2R(2)})}
  \cup
  {[method |-> m, equation |-> f, params |-> p] :
     m \in {"Newton-Raphson", "Modified Newton-Raphson (Unknown m)"},
     f \in {XSquaredMinus4, XSquared, XSquaredPlus1},
     p \in GuessParams({I2R(3), I2R(0), I2R(1)})}
  \cup
  {[method |-> m, equation |-> f, params |-> ("multiplicity" :> I2R(1)) @@ p] :
     m \in {"Newton-Raphson", "Modified Newton-Raphson (Known m)"},
     f \in {HugeXMinus3, HugeXSquaredPlusXMinus3},
     p \in GuessParams({I2R(1), I2R(0)})}
  \cup
  {[method |-> "Modified Newton-Raphson (Unknown m)", equation |-> XSquaredPlus4,
    params |-> p] : p \in GuessParams({<<207, 250>>})}
  \cup
  {[method |-> "Modified Newton-Raphson (Known m)", equation |-> f, params |-> p] :
     f \in {XSquaredMinus4, XSquared},
     p \in GuessParams({I2R(3), I2R(0)})
           \cup {("multiplicity" :> I2R(mm)) @@ q :
                   mm \in {1, 2}, q \in GuessParams({I2R(3), I2R(0)})}}
  \cup
  {[method |-> "Secant", equation |-> f, params |-> p] :
     f \in {XSquaredMinus4, XMinus1, XIdentity, XOver100000},
     p \in {("second_guess" :> I2R(3)) @@ q : q \in GuessParams({I2R(1), I2R(3)})}
           \cup GuessParams({I2R(1)})}
  \cup
  {[method |-> "Modified Secant", equation |-> f, params |-> p] :
     f \in {XSquaredMinus4, XMinus1, XIdentity, XOver100000},
     p \in GuessParams({I2R(3), I2R(0)}) \cup {<<>>}}
  \cup
  {[method |-> "Brent", equation |-> XMinus1, params |-> <<>>]}

\* Fixed-Point runs seeded at 2e10 and 5e9, held in units of 1e10.
LargeUnit == 10

LargeRequests ==
  {[method |-> "Fixed Point", equation |-> f, params |-> p] :
     f \in {XIdentity, TwoX, ThreeHalvesX},
     p \in GuessParams({I2R(2), <<1, 2>>})}

Precisions == {3}

\* The linear systems handed to the solvers directly: square, with no zero
\* row, and for IterativeMethod with no zero diagonal entry.  They are
\* chosen so that no rounding in the run falls on an exact tie, where the
\* code's binary floating point and exact arithmetic can round differently.
IterativeSystems ==
  { [A |-> ToRatMat(<<<<3, 1>>, <<1, 3>>>>), b |-> ToRatVec(<<5, 7>>)],
    [A |-> ToRatMat(<<<<3, -1>>, <<-2, 5>>>>), b |-> ToRatVec(<<1, 4>>)],
    [A |-> ToRatMat(<<<<1, 2>>, <<2, 4>>>>), b |-> ToRatVec(<<3, 6>>)],
    [A |-> ToRatMat(<<<<3, 1, 1>>, <<1, 3, 1>>, <<1, 1, 3>>>>),
     b |-> ToRatVec(<<5, 5, 5>>)],
    [A |-> ToRatMat(<<<<1, 3>>, <<2, 1>>>>), b |-> ToRatVec(<<4, 3>>)],
    [A |-> ToRatMat(<<<<2>>>>), b |-> ToRatVec(<<1>>)] }

\* For Doolittle: among them a singular system, a zero column, a zero on
\* the diagonal, and a system of three equations that needs row exchanges.
DoolittleSystems ==
  { [A |-> ToRatMat(<<<<2, 1>>, <<1, 3>>>>), b |-> ToRatVec(<<3, 5>>)],
    [A |-> ToRatMat(<<<<3, -1>>, <<-2, 5>>>>), b |-> ToRatVec(<<1, 4>>)],
    [A |-> ToRatMat(<<<<1, 2>>, <<2, 4>>>>), b |-> ToRatVec(<<3, 6>>)],
    [A |-> ToRatMat(<<<<1, 3>>, <<2, 1>>>>), b |-> ToRatVec(<<4, 3>>)],
    [A |-> ToRatMat(<<<<2, 100>>, <<1, 1>>>>), b |-> ToRatVec(<<102, 2>>)],
    [A |-> ToRatMat(<<<<2>>>>), b |-> ToRatVec(<<1>>)],
    [A |-> ToRatMat(<<<<0, 1>>, <<0, 1>>>>), b |-> ToRatVec(<<0, 0>>)],
    [A |-> ToRatMat(<<<<0, 1>>, <<1, 1>>>>), b |-> ToRatVec(<<1, 2>>)],
    [A |-> ToRatMat(<<<<2, 1, 1>>, <<4, 3, 3>>, <<8, 7, 9>>>>),
     b |-> ToRatVec(<<4, 10, 24>>)] }

\* The systems solved by Crout, Doolittle and Gauss Elimination alike:
\* with three significant figures every quotient and product of their
\* runs is exact.
CommonSystems ==
  { [A |-> ToRatMat(<<<<1, 1>>, <<1, 0>>>>), b |-> ToRatVec(<<2, 1>>)],
    [A |-> ToRatMat(<<<<2, 1>>, <<1, 3>>>>), b |-> ToRatVec(<<3, 5>>)],
    [A |-> ToRatMat(<<<<1, 2>>, <<2, 4>>>>), b |-> ToRatVec(<<3, 6>>)],
    [A |-> ToRatMat(<<<<0, 1>>, <<1, 1>>>>), b |-> ToRatVec(<<1, 2>>)],
    [A |-> ToRatMat(<<<<2>>>>), b |-> ToRatVec(<<1>>)],
    [A |-> ToRatMat(<<<<4, 0, 0>>, <<2, 2, 0>>, <<1, 1, 1>>>>),
     b |-> ToRatVec(<<4, 4, 3>>)],
    [A |-> ToRatMat(<<<<1, 1, 0>>, <<1, 0, 1>>, <<0, 1, 2>>>>),
     b |-> ToRatVec(<<2, 2, 3>>)] }

\* For Cholesky: positive definite systems, an indefinite and a negative
\* one, a matrix that is not symmetric and one that is not square.
CholeskySystems ==
  { [A |-> ToRatMat(<<<<4, 2>>, <<2, 3>>>>), b |-> ToRatVec(<<2, 1>>)],
    [A |-> ToRatMat(<<<<2>>>>), b |-> ToRatVec(<<1>>)],
    [A |-> ToRatMat(<<<<4, 2, 2>>, <<2, 5, 3>>, <<2, 3, 6>>>>),
     b |-> ToRatVec(<<8, 10, 11>>)],
    [A |-> ToRatMat(<<<<3, 1>>, <<1, 3>>>>), b |-> ToRatVec(<<5, 7>>)],
    [A |-> ToRatMat(<<<<1, 2>>, <<2, 1>>>>), b |-> ToRatVec(<<3, 3>>)],
    [A |-> ToRatMat(<<<<-1>>>>), b |-> ToRatVec(<<1>>)],
    [A |-> ToRatMat(<<<<1, 2>>, <<3, 4>>>>), b |-> ToRatVec(<<3, 7>>)],
    [A |-> ToRatMat(<<<<4, 1>>, <<2, 3>>>>), b |-> ToRatVec(<<5, 5>>)],
    [A |-> ToRatMat(<<<<1, 2, 3>>, <<4, 5, 6>>>>), b |-> ToRatVec(<<1, 2>>)] }

\* For the Gauss solvers: systems where the scaled and the unscaled pivot
\* choice differ, a zero on the diagonal, a zero column, a zero row, a
\* singular system, and systems of three equations.
GaussSystems ==
  { [A |-> ToRatMat(<<<<2, 100>>, <<1, 1>>>>), b |-> ToRatVec(<<102, 2>>)],
    [A |-> ToRatMat(<<<<1, 2>>, <<3, 4>>>>), b |-> ToRatVec(<<3, 7>>)],
    [A |-> ToRatMat(<<<<0>>>>), b |-> ToRatVec(<<1>>)],
    [A |-> ToRatMat(<<<<2>>>>), b |-> ToRatVec(<<1>>)],
    [A |-> ToRatMat(<<<<0, 1>>, <<1, 1>>>>), b |-> ToRatVec(<<1, 2>>)],
    [A |-> ToRatMat(<<<<0, 1>>, <<0, 1>>>>), b |-> ToRatVec(<<0, 0>>)],
    [A |-> ToRatMat(<<<<1, 2>>, <<2, 4>>>>), b |-> ToRatVec(<<3, 6>>)],
    [A |-> ToRatMat(<<<<0, 0>>, <<1, 1>>>>), b |-> ToRatVec(<<0, 2>>)],
    [A |-> ToRatMat(<<<<2, 1, 1>>, <<4, 3, 3>>, <<8, 7, 9>>>>),
     b |-> ToRatVec(<<4, 10, 24>>)],
    [A |-> ToRatMat(<<<<1, 20, 1>>, <<2, 1, 1>>, <<3, 90, 2>>>>),
     b |-> ToRatVec(<<22, 4, 95>>)] }

\* The solver instances after construction (AbstractSolver.__init__ and
\* the class's own constructor).
LinearInstances ==
  {[class |-> "IterativeMethod", A |-> sys.A, b |-> sys.b, n |-> Len(sys.A),
    precision |-> d, X |-> [i \in 1..Len(sys.A) |-> Zero], iterations |-> k,
    tol |-> t, jacobi |-> j] :
     sys \in IterativeSystems, d \in Precisions, k \in Budgets, t \in Tolerances,
     j \in BOOLEAN}
  \cup
  {[class |-> "Doolittle", A |-> sys.A, b |-> sys.b, n |-> Len(sys.A),
    precision |-> d] : sys \in DoolittleSystems \cup CommonSystems, d \in Precisions}
  \cup
  {[class |-> "Crout", A |-> sys.A, b |-> sys.b, n |-> Len(sys.A),
    precision |-> d] : sys \in CommonSystems, d \in Precisions}
  \cup
  {[class |-> "Cholesky", A |-> sys.A, b |-> sys.b, n |-> Len(sys.A),
    precision |-> d] : sys \in CholeskySystems, d \in Precisions}
  \cup
  {[class |-> c, A |-> sys.A, b |-> sys.b, n |-> Len(sys.A), precision |-> d,
    use_scaling |-> u] :
     c \in {"GaussElimination", "GaussJordan"},
     sys \in GaussSystems \cup CommonSystems, d \in Precisions, u \in BOOLEAN}

InitSolve ==
  /\ gui = Nil
  /\ req = Nil /\ heap = Nil /\ data = Nil /\ pc = "idle"
  /\ solver_class = None /\ vstat = "not_called"
  /\ exc = Nil /\ results = Nil
  /\ \/ /\ solver = Nil
        /\ \E d \in Precisions :
             \/ \E r \in RootFinderRequests :
                  rf = [method |-> r.method, equation |-> r.equation, precision |-> d,
                        params |-> r.params, unit |-> 0]
             \/ \E r \in LargeRequests :
                  rf = [method |-> r.method, equation |-> r.equation, precision |-> d,
                        params |-> r.params, unit |-> LargeUnit]
        /\ spc = "factory"
     \/ /\ solver \in LinearInstances
        /\ rf = Nil
        /\ spc = "start"
  /\ loc = Nil
  /\ steps = <<>>
  /\ sres = Nil

NextSolve ==
  \/ RootFinderGetSolver
  \/ BisectionStart \/ BisectionIterate \/ BisectionExhausted
  \/ FalsePositionStart \/ FalsePositionIterate \/ FalsePositionExhausted
  \/ FixedPointStart \/ FixedPointIterate \/ FixedPointExhausted
  \/ NewtonRaphsonStart \/ NewtonRaphsonIterate \/ NewtonRaphsonExhausted
  \/ Modified1Start \/ Modified1Iterate \/ Modified1Exhausted
  \/ Modified2Start \/ Modified2Iterate \/ Modified2Exhausted
  \/ SecantStart \/ SecantIterate \/ SecantExhausted
  \/ ModifiedSecantStart \/ ModifiedSecantIterate \/ ModifiedSecantExhausted
  \/ IterativeStart \/ IterativeSweep \/ IterativeCheck \/ IterativeExhausted
  \/ DoolittleStart \/ DoolittleScales \/ DoolittlePivot \/ DoolittlePivotCheck
  \/ DoolittleEliminate \/ DoolittleFinalCheck \/ DoolittleForward
  \/ DoolittleBackStart \/ DoolittleBackward \/ DoolittleFinish
  \/ CroutStart \/ CroutScales \/ CroutPivot \/ CroutPivotCheck
  \/ CroutLowerColumn \/ CroutUpperRow \/ CroutDecomposed \/ CroutForward
  \/ CroutBackStart \/ CroutBackward \/ CroutFinish
  \/ CholeskyStart \/ CholeskySquareCheck \/ CholeskySymmetryCheck
  \/ CholeskyDefiniteCheck \/ CholeskyElement \/ CholeskyDecomposed
  \/ CholeskyForward \/ CholeskyForwardDone \/ CholeskyBackward
  \/ CholeskyFinish
  \/ GaussStart \/ GaussScales \/ GaussPivot \/ GaussPivotCheck
  \/ GaussEliminateRow \/ GaussFinalCheck \/ GaussBack \/ GaussFinish
  \/ JordanStart \/ JordanScales \/ JordanPivot \/ JordanNormalize
  \/ JordanEliminateRow \/ JordanReduced \/ JordanFinish

SpecSolve == InitSolve /\ [][NextSolve]_vars

(***************************************************************************)
(* Claims about the step record and the iteration budget.                  *)
(***************************************************************************)
\* solve() has ended after its loop ran out of iterations: the iteration
\* counter only reaches max_iter through iterations that neither returned
\* nor raised.
BudgetExhausted ==
  /\ rf # Nil
  /\ spc \in {"returned", "raised"}
  /\ "max_iter" \in DOMAIN loc
  /\ loc.iteration >= loc.max_iter

\* C10: for each of the eight root finders, when max_iterations iterations
\* complete without the stopping rule being met, solve() fails with the
\* non-convergence error and never returns a success result.
C10_ExhaustedBudgetFails ==
  BudgetExhausted =>
    /\ spc = "raised"
    /\ sres.type = "ValueError"
    /\ sres.what = "failed to converge"

IsPrefix(s, t) == Len(s) <= Len(t) /\ SubSeq(t, 1, Len(s)) = s

\* The number of add_step calls made so far, where the position in the
\* code determines it: a root finder at the head of its loop has made one
\* call per completed iteration, IterativeMethod one more for the initial
\* guess.
AddStepCalls ==
  IF rf # Nil THEN loc.iteration ELSE loc.it + 1

CountsAddStepCalls ==
  spc = "loop" /\ (rf # Nil \/ solver.class = "IterativeMethod")

\* C9: during any solve() the step record changes only by appends: each
\* step of the computation leaves the record alone or extends it by exactly
\* one entry, keeping every earlier entry in place and unmodified; the
\* record holds one entry per add_step call; and the step sequence carried
\* by a returned result is the accumulated record.
C9_StepsAppendOnly ==
  [][/\ IsPrefix(steps, steps')
     /\ Len(steps') <= Len(steps) + 1
     /\ (CountsAddStepCalls' => Len(steps') = AddStepCalls')
     /\ (spc' = "returned" => sres'.steps = steps')]_vars

C9_Witness ==
  /\ spc = "returned"
  /\ Len(steps) >= 2
  /\ sres.steps = steps

(***************************************************************************)
(* Claims about the iteration loops and their guards.                      *)
(***************************************************************************)
IsIterative == solver # Nil /\ solver.class = "IterativeMethod"

IsSweepEntry(e) == e.operation = "Iteration"

\* The "Iteration" entries of the record: one per sweep run so far.
SweepSteps == SelectSeq(steps, IsSweepEntry)

SolveEnded == spc \in {"returned", "raised"}

\* C11: IterativeMethod.solve runs at most max_iterations sweeps; it
\* returns success at the first sweep k whose error is below the tolerance
\* with iterations = k; and when no sweep meets the tolerance it ends with
\* the non-convergence error carrying the error of the last sweep.
C11_IterativeTerminates ==
  IsIterative =>
    /\ Len(SweepSteps) <= solver.iterations
    /\ (spc = "returned" =>
          /\ sres.success
          /\ sres.iterations = Len(SweepSteps)
          /\ sres.iterations \in 1..solver.iterations
          /\ SweepSteps[sres.iterations].converged
          /\ \A j \in 1..(sres.iterations - 1) : ~SweepSteps[j].converged)
    /\ ((SolveEnded /\ \A j \in 1..Len(SweepSteps) : ~SweepSteps[j].converged) =>
          /\ spc = "raised"
          /\ sres.type = "ValueError"
          /\ sres.what = "failed to converge"
          /\ sres.error = SweepSteps[Len(SweepSteps)].error)

\* The bracket a root finder works on: Bisection takes the endpoints as
\* given, False-Position rounds them first.
BracketA ==
  IF rf.method = "Bisection" THEN Param("interval_a", I2R(-5))
  ELSE Rnd(Param("interval_a", I2R(-5)))

BracketB ==
  IF rf.method = "Bisection" THEN Param("interval_b", I2R(5))
  ELSE Rnd(Param("interval_b", I2R(5)))

IsBracketing == rf # Nil /\ rf.method \in {"Bisection", "False-Position"}

NoSignChangeRaised ==
  spc = "raised" /\ sres.type = "ValueError" /\ sres.what = "no sign change"

IsNewton == rf # Nil /\ rf.method = "Newton-Raphson"

NewtonStarted == IsNewton /\ spc \in {"loop", "returned", "raised"}

Seed == Rnd(Param("initial_guess", I2R(1)))

\* A failure raised by one of the method's own guards.
GuardError ==
  /\ spc = "raised"
  /\ sres.type = "ValueError"
  /\ sres.what \in {"function value is infinite at initial guess",
                    "function value became infinite",
                    "derivative too close to zero",
                    "derivative too small"}

StationarySeed ==
  /\ is_finite(evaluate(rf.equation, Seed))
  /\ is_finite(evaluate_first_derivative(rf.equation, Seed))
  /\ BelowPow10Neg(Rnd(evaluate_first_derivative(rf.equation, Seed)), 12)

\* C13: a Newton-Raphson run whose f is non-finite at the seed ends with an
\* error of its own guards; so does every run that fails for another reason
\* than an exhausted budget (a non-finite f at an iterate, a derivative below
\* 1e-12); seeded at a stationary point the run fails with no step recorded.
C13_NewtonGuards ==
  NewtonStarted =>
    /\ ~is_finite(evaluate(rf.equation, Seed)) => GuardError
    /\ (spc = "raised" /\ sres.what # "failed to converge") => GuardError
    /\ (StationarySeed /\ SolveEnded) =>
         /\ spc = "raised"
         /\ steps = <<>>
         /\ (Param("max_iterations", DefaultMaxIter) >= 1 => GuardError)

IsModified1 == rf # Nil /\ rf.method = "Modified Newton-Raphson (Known m)"

\* C14: a Modified Newton (known m) run with no multiplicity supplied ends
\* with the error saying that m must be provided; with m supplied it fails
\* under the guards of plain Newton: an error of its own guards when f is
\* non-finite at the seed, and whenever it fails for another reason than an
\* exhausted budget.
C14_Modified1Guards ==
  (IsModified1 /\ spc \in {"loop", "returned", "raised"}) =>
    IF "multiplicity" \notin DOMAIN rf.params
      THEN /\ spc = "raised"
           /\ sres.type = "ValueError"
           /\ sres.what = "multiplicity must be provided"
      ELSE /\ ~is_finite(evaluate(rf.equation, Seed)) => GuardError
           /\ (spc = "raised" /\ sres.what # "failed to converge") => GuardError

IsModified2 == rf # Nil /\ rf.method = "Modified Newton-Raphson (Unknown m)"

\* The denominator f'^2 - f*f'' of the iteration about to run.
Modified2Denominator ==
  LET f1 == Rnd(evaluate_first_derivative(rf.equation, loc.x_prev))
      f2 == Rnd(evaluate_second_derivative(rf.equation, loc.x_prev))
  IN  RSub(RMul(f1, f1), RMul(loc.fx, f2))

SmallDenominator ==
  /\ IsModified2 /\ spc = "loop" /\ loc.iteration < loc.max_iter
  /\ BelowPow10Neg(Modified2Denominator, 12)

\* C15: an iteration of Modified Newton (unknown m) that finds
\* |f'^2 - f*f''| < 1e-12, the first one included, ends solve() with a
\* success result whose root is the current iterate.
C15_SmallDenominatorSucceeds ==
  [][SmallDenominator =>
       /\ spc' = "returned"
       /\ sres'.success
       /\ sres'.root = loc.x_prev]_vars

IsSecantFamily == rf # Nil /\ rf.method \in {"Secant", "Modified Secant"}

\* The iterate the update of the iteration about to run computes.
SecantUpdate ==
  IF rf.method = "Secant"
    THEN Rnd(RSub(loc.xi, RDiv(RMul(loc.fxi, RSub(loc.xi_minus1, loc.xi)), loc.denom)))
    ELSE Rnd(RSub(loc.xi, RDiv(RMul(loc.fxi, RMul(loc.delta, loc.xi)), loc.denom)))

\* |xi_plus1 - xi| > 1e12 * max(|xi_plus1|, 1e-12), on the exact values.
SecantDiverges ==
  LET d == RAbs(RSub(SecantUpdate, loc.xi))
  IN  IF BelowPow10Neg(SecantUpdate, 12) THEN RLt(I2R(1), d)
      ELSE ~RIsZero(d) /\ BelowPow10Neg(RDiv(SecantUpdate, d), 12)

SecantRaised(what) ==
  /\ spc' = "raised"
  /\ sres' = [type |-> "ValueError", what |-> what]
  /\ steps' = steps
  /\ loc' = loc

\* C16: an iteration of Secant or Modified Secant whose denominator is below
\* 10^-(precision+1) in absolute value raises the division-by-near-zero
\* error without computing the update; an iteration whose relative error
\* exceeds 1e12 raises the divergence error and records no step.
C16_SecantGuards ==
  [][(IsSecantFamily /\ spc = "loop" /\ loc.iteration < loc.max_iter) =>
       IF RLt(RAbs(loc.denom), <<1, Pow10(rf.precision + 1)>>)
         THEN SecantRaised(IF rf.method = "Secant"
                             THEN "secant denominator too small"
                             ELSE "modified secant denominator too small")
         ELSE /\ SecantDiverges => SecantRaised("divergence detected")
              /\ ~SecantDiverges => ~(spc' = "raised")]_vars

C16_Witness ==
  /\ IsSecantFamily /\ spc = "raised"
  /\ sres.what \in {"secant denominator too small",
                    "modified secant denominator too small"}
  /\ ~RIsZero(loc.denom)

IsFixedPoint == rf # Nil /\ rf.method = "Fixed Point"

\* |g(x)| > 1e10 for the iteration about to run.
LargeIterate ==
  /\ IsFixedPoint /\ spc = "loop" /\ loc.iteration < loc.max_iter
  /\ RelGtPow10([v |-> Rnd(evaluate(rf.equation, loc.x)), e |-> rf.unit], 10)

\* C17: a Fixed-Point iteration in which |g(x)| > 1e10 ends solve() with the
\* divergence error; it neither returns a result nor continues.
C17_LargeIterateDiverges ==
  [][LargeIterate =>
       /\ spc' = "raised"
       /\ sres' = [type |-> "ValueError", what |-> "diverged"]]_vars

(***************************************************************************)
(* Claims about the direct solvers.                                        *)
(***************************************************************************)
\* The first of Cholesky's three requirements the system fails, None when
\* it meets them all: square, symmetric, positive definite.
FirstFailure ==
  LET a == solver.A
  IN  IF Len(a) # Len(a[1]) THEN "Matrix must be square"
      ELSE IF \E i, j \in 1..Len(a) : a[i][j] # a[j][i]
        THEN "Matrix must be symmetric"
      ELSE IF \E k \in 1..Len(a) : LeadingMinor(a, k)[1] <= 0
        THEN "Matrix must be positive definite"
      ELSE None

\* The entries of the record that hold an element of L.
ElementSteps ==
  {t \in 1..Len(steps) :
     steps[t].operation \in {"Diagonal Element", "Off-diagonal Element"}}

\* C18: Cholesky.solve runs the square, symmetric and positive-definite
\* checks in that order before any decomposition step; a system that fails
\* one of them ends solve() with the error of the first check it fails, and
\* no element of L is ever computed or recorded for it.
C18_CholeskyChecksFirst ==
  IsCholesky =>
    /\ (ElementSteps # {} \/ "L" \in DOMAIN loc) =>
         /\ Len(steps) >= 4
         /\ steps[2].operation = "Matrix Check"
         /\ steps[3].operation = "Symmetry Check"
         /\ steps[4].operation = "Positive Definiteness Check"
         /\ \A t \in ElementSteps : t > 4
    /\ FirstFailure # None =>
         /\ ElementSteps = {}
         /\ loc = Nil
         /\ spc \in {"start", "square_check", "symmetry_check", "definite_check",
                     "raised"}
         /\ spc = "raised" => sres = [type |-> "ValueError", what |-> FirstFailure]

C18_Witness ==
  /\ IsCholesky /\ spc = "raised"
  /\ sres.what = "Matrix must be positive definite"
  /\ Len(steps) = 3

(***************************************************************************)
(* round_sig_fig on its own: the inputs are drawn from a set of decimals   *)
(* and fractions, round_sig_fig is applied, and applied again to its       *)
(* result.                                                                 *)
(***************************************************************************)
MaxSigFigs == 4

\* Magnitudes with terminating and non-terminating expansions, among them
\* exact ties (0.125 at two figures) and values that carry into the next
\* power of ten (9.995, 999.6).
RoundMagnitudes ==
  {Rat(k, d) : k \in {0, 1, 5, 15, 25, 125, 995, 999, 1234, 9995, 9996, 12345},
               d \in {1, 7, 10, 1000}}

RoundInputs == RoundMagnitudes \cup {RNeg(x) : x \in RoundMagnitudes}

InitRound ==
  /\ gui = Nil
  /\ req = Nil /\ heap = Nil /\ data = Nil /\ pc = "idle"
  /\ solver_class = None /\ solver = Nil /\ vstat = "not_called"
  /\ exc = Nil /\ results = Nil /\ rf = Nil
  /\ \E x \in RoundInputs : \E n \in 1..MaxSigFigs : loc = [x |-> x, n |-> n]
  /\ steps = <<>>
  /\ spc = "round"
  /\ sres = Nil

\* y = round_sig_fig(x, n)
RoundSigFigCall ==
  /\ rf = Nil /\ solver = Nil /\ spc = "round"
  /\ sres' = [value |-> round_sig_fig(loc.x, loc.n)]
  /\ spc' = "rounded"
  /\ UNCHANGED <<lvars, rf, loc, steps>>

\* round_sig_fig(y, n)
RoundSigFigAgain ==
  /\ rf = Nil /\ solver = Nil /\ spc = "rounded"
  /\ sres' = [value |-> round_sig_fig(sres.value, loc.n), first |-> sres.value]
  /\ spc' = "rerounded"
  /\ UNCHANGED <<lvars, rf, loc, steps>>

NextRound == RoundSigFigCall \/ RoundSigFigAgain

SpecRound == InitRound /\ [][NextRound]_vars

\* 10^k as a rational, k of either sign.
TenTo(k) == IF k >= 0 THEN <<Pow10(k), 1>> ELSE <<1, Pow10(-k)>>

\* y is x rounded to n significant digits: with 10^e <= |x| < 10^(e+1) and
\* u = 10^(e-n+1) the n-th significant place of x, y is a multiple of u
\* within u/2 of x, the even multiple on a tie.
IsRoundedTo(y, x, n) ==
  \E e \in -4..5 :
    /\ RLe(TenTo(e), RAbs(x)) /\ RLt(RAbs(x), TenTo(e + 1))
    /\ LET u == TenTo(e - n + 1)
           q == RDiv(y, u)
           d == RAbs(RSub(y, x))
       IN  /\ q[2] = 1
           /\ RLe(RAdd(d, d), u)
           /\ (RAdd(d, d) = u => q[1] % 2 = 0)

\* C19: round_sig_fig(0, n) = 0 for every n; for x # 0 the result is x
\* rounded to its n leading significant digits, with no non-zero digit
\* beyond the n-th significant place of x; and rounding the result again
\* with the same n returns it unchanged.
C19_RoundSigFig ==
  /\ spc = "rounded" =>
       IF RIsZero(loc.x) THEN sres.value = Zero
       ELSE IsRoundedTo(sres.value, loc.x, loc.n)
  /\ spc = "rerounded" => sres.value = sres.first

\* A rounding that carries into the next power of ten, rounded again.
C19_Witness ==
  /\ spc = "rerounded"
  /\ ~RIsZero(loc.x)
  /\ sres.first # loc.x
  /\ RLt(RAbs(loc.x), I2R(10)) /\ RLe(I2R(10), RAbs(sres.first))

IsGaussFamily == solver # Nil /\ solver.class \in {"GaussElimination", "GaussJordan"}

\* w is v with the entries k and p exchanged.
Exchanged(v, w, k, p) ==
  /\ DOMAIN w = DOMAIN v
  /\ w[k] = v[p] /\ w[p] = v[k]
  /\ \A i \in DOMAIN v \ {k, p} : w[i] = v[i]

\* |A[k][k]| / scale[k] >= |A[i][k]| / scale[i] for every row i below k,
\* compared without the division.
PivotDominates(a, sc, k) ==
  \A i \in (k + 1)..Len(a) :
     RLe(RMul(RAbs(a[i][k]), sc[k]), RMul(RAbs(a[k][k]), sc[i]))

\* C20: in Gauss Elimination and Gauss-Jordan the scale factors are all
\* ones when scaling is disabled and otherwise each row's largest magnitude
\* in the original matrix; the pivot selection for column k exchanges row k
\* with one row p >= k in the matrix, the right-hand side and the scale
\* factors alike, after which |A[k][k]| / scale[k] >= |A[i][k]| / scale[i]
\* for every row i > k; no other part of the solve changes the scale
\* factors.
C20_ScaledPivotDominates ==
  [][IsGaussFamily =>
       /\ spc = "scales" =>
             loc'.scales = [i \in 1..solver.n |->
                              IF solver.use_scaling
                                THEN RowMaxAbs(solver.A[i], solver.n) ELSE I2R(1)]
       /\ spc = "pivot" =>
             /\ \E p \in loc.k..solver.n :
                   /\ Exchanged(loc.A, loc'.A, loc.k, p)
                   /\ Exchanged(loc.b, loc'.b, loc.k, p)
                   /\ Exchanged(loc.scales, loc'.scales, loc.k, p)
             /\ PivotDominates(loc'.A, loc'.scales, loc.k)
       /\ spc \notin {"start", "scales", "pivot"} => loc'.scales = loc.scales]_vars

\* A scaled pivot selection has exchanged two rows, and the row it chose has
\* a smaller entry in column k than a row below it.
C20_Witness ==
  /\ IsGaussFamily /\ solver.use_scaling
  /\ spc \in {"pivot_check", "normalize"}
  /\ steps[Len(steps)].operation = "Pivot: Swap Rows"
  /\ PivotDominates(loc.A, loc.scales, loc.k)
  /\ \E i \in (loc.k + 1)..solver.n :
        RLt(RAbs(loc.A[loc.k][loc.k]), RAbs(loc.A[i][loc.k]))

\* C21: Gauss Elimination never divides by a pivot of magnitude below
\* 1e-10, for systems of one equation and more: whenever the elimination is
\* about to divide by A[k][k], and whenever the back substitution still has
\* to divide by A[i][i], that entry is at least 1e-10 in magnitude; and the
\* only error the solve raises is the ValueError of the pivot checks.
C21_NoTinyPivotDivision ==
  IsGauss =>
    /\ spc = "eliminate" => ~BelowPow10Neg(loc.A[loc.k][loc.k], GaussTolExp)
    /\ spc = "back" =>
          \A i \in 1..loc.i : ~BelowPow10Neg(loc.A[i][i], GaussTolExp)
    /\ spc = "raised" =>
          /\ sres.type = "ValueError"
          /\ \E i \in 1..solver.n : BelowPow10Neg(loc.A[i][i], GaussTolExp)
          /\ \A s \in 1..Len(steps) : steps[s].operation # "Back Substitution"

\* A pivot check has refused a zero pivot that the elimination itself
\* produced.
C21_Witness ==
  /\ IsGauss /\ spc = "raised" /\ solver.n > 1
  /\ \E s \in 1..Len(steps) : steps[s].operation = "Eliminate Row"
  /\ RIsZero(loc.A[solver.n][solver.n])

\* Doolittle's working rows and scale factors in the order of its order
\* vector o, the matrix Gauss Elimination would hold at the same column.
RowsInOrder == [r \in 1..solver.n |-> loc.a[loc.o[r]]]

ScalesInOrder == [r \in 1..solver.n |-> loc.sc[loc.o[r]]]

\* The original row Gauss Elimination picks at column k with use_scaling = u.
GaussChoice(u) ==
  loc.o[pivot_row(RowsInOrder, IF u THEN ScalesInOrder ELSE Ones(solver.n), loc.k)]

\* C22: at each elimination column k Doolittle picks as pivot the same
\* original row as Gauss Elimination picks on the same rows under either
\* scaling setting: the row i >= k with the largest |a[i][k]| / scale[i],
\* scale[i] being 1 when scaling is disabled and the row maximum when it is
\* enabled.
C22_DoolittlePivotsAsGauss ==
  [][(IsDoolittle /\ spc = "pivot") =>
       \A u \in BOOLEAN : loc'.o[loc.k] = GaussChoice(u)]_vars

\* The matrix a with column c replaced by the vector b.
ReplaceColumn(a, c, b) ==
  [i \in 1..Len(a) |-> [j \in 1..Len(a) |-> IF j = c THEN b[i] ELSE a[i][j]]]

\* The solution of a regular system in exact arithmetic (Cramer's rule).
ExactSolution(a, b) ==
  [i \in 1..Len(a) |-> RDiv(Det(ReplaceColumn(a, i, b)), Det(a))]

\* The solve of one of the three solvers on a system they all solve has
\* ended.
CommonSolveEnded(classes) ==
  /\ solver # Nil /\ solver.class \in classes
  /\ \E sys \in CommonSystems : sys.A = solver.A /\ sys.b = solver.b
  /\ spc \in {"returned", "raised"}

\* The outcome of exact arithmetic: the singular-matrix error for a
\* singular matrix, the solution vector otherwise.
ExactOutcome ==
  IF RIsZero(Det(solver.A))
    THEN spc = "raised" /\ sres.type = "ValueError"
    ELSE /\ spc = "returned"
         /\ \A i \in 1..solver.n :
               RIsZero(RSub(sres.sol[i], ExactSolution(solver.A, solver.b)[i]))

\* C23: on every square system Crout, Doolittle and Gauss Elimination end
\* alike: on the systems where the arithmetic of all three is exact, each
\* of them raises the singular-matrix error when the matrix is singular and
\* returns the one solution vector otherwise, so either all raise or all
\* return the same vector.
C23_CroutAsDoolittle ==
  CommonSolveEnded({"Crout", "Doolittle", "GaussElimination"}) => ExactOutcome

IsLUSolver == solver # Nil /\ solver.class \in {"Doolittle", "Crout"}

IsPermutation(o, n) == DOMAIN o = 1..n /\ {o[i] : i \in 1..n} = 1..n

\* C24: in Doolittle and Crout a pivot call leaves the order vector o a
\* permutation of the row indices and changes nothing but o and the step
\* list: the coefficient matrix, the scale factors, the right-hand side and
\* the vectors x and y are what they were before the call.
C24_PivotPermutesOrderOnly ==
  [][(IsLUSolver /\ spc = "pivot") =>
       /\ IsPermutation(loc'.o, solver.n)
       /\ \E p \in loc.k..solver.n :
             /\ loc'.o[loc.k] = loc.o[p] /\ loc'.o[p] = loc.o[loc.k]
             /\ \A i \in (1..solver.n) \ {p, loc.k} : loc'.o[i] = loc.o[i]
       /\ loc' = [loc EXCEPT !.o = loc'.o]
       /\ solver' = solver
       /\ \A s \in 1..Len(steps) : steps'[s] = steps[s]]_vars

\* A pivot call at a column after the first has exchanged two entries of
\* the order vector.
C24_Witness ==
  /\ IsLUSolver /\ spc = "pivot_check" /\ loc.k > 1
  /\ steps[Len(steps)].operation = "Pivot at Column"
  /\ loc.o[loc.k] # loc.k
  /\ IsPermutation(loc.o, solver.n)

\* The value of unknown i computed from the vector lower for the terms
\* j < i and the vector upper for the terms j > i.
UnknownFrom(i, lower, upper) ==
  LRnd(RDiv(RSub(RSub(solver.b[i], dot_with_rounding(solver.A[i], lower, 1, i - 1)),
                 dot_with_rounding(solver.A[i], upper, i + 1, solver.n)),
            solver.A[i][i]))

\* C25: in one sweep of IterativeMethod every new x[i] is computed, when
\* the Jacobi flag is set, from the previous iterate alone and, when the
\* flag is clear, from the values of this sweep for j < i and the previous
\* iterate for j > i.
C25_SweepOperands ==
  [][(IsIterative /\ spc = "loop" /\ spc' = "check") =>
       \A i \in 1..solver.n :
          loc'.X[i] = UnknownFrom(i, IF solver.jacobi THEN loc.X ELSE loc'.X, loc.X)]_vars

\* A sweep has ended on a system where the two ways of choosing the terms
\* j < i give different vectors.
C25_Witness ==
  /\ IsIterative /\ spc = "check" /\ solver.n >= 2
  /\ \E i \in 1..solver.n :
        UnknownFrom(i, loc.old_x, loc.old_x) # UnknownFrom(i, loc.X, loc.old_x)

(***************************************************************************)
(* NumericalSolverGUI: the step playback of the root-finding tab.  gui     *)
(* holds the fields and widgets that the callbacks read and write; every   *)
(* callback runs to its end on Tk's main loop before the next one starts.  *)
(* The steps of a result are a list of its own: its entries carry the      *)
(* number of the solve that recorded them, and gui.solves counts the       *)
(* solves.                                                                 *)
(***************************************************************************)
MaxSolves == 3

MaxSteps == 3

nongui == <<req, heap, data, pc, solver_class, solver, vstat, exc, results, svars>>

\* results["steps"] of the k-th solve, with len recorded steps.
StepList(k, len) == [i \in 1..len |-> [solve |-> k, iteration |-> i]]

\* The text display_step_mode writes for the index idx (lines 922-943).
StepView(all_steps, idx) ==
  [kind |-> "step", position |-> idx + 1, of |-> Len(all_steps),
   current_step |-> all_steps[idx + 1], history |-> SubSeq(all_steps, 1, idx + 1)]

\* The text of show_final_summary (lines 961-975).
SummaryView(all_steps) == [kind |-> "summary", steps |-> all_steps]

\* The text of display_full_solution (lines 901-914).
FullView(all_steps) == [kind |-> "full", steps |-> all_steps]

\* The mutated display: the summary leaves 'Next Step' as it is.
display_keeping_button(g) ==
  IF g.current_step_index >= Len(g.all_steps)
    THEN [g EXCEPT !.shown = SummaryView(g.all_steps)]
    ELSE [g EXCEPT !.shown = StepView(g.all_steps, g.current_step_index)]

\* display_step_mode (lines 916-943) and show_final_summary (959-976):
\* the fields after the call, for the fields g before it.
display_step_mode(g) ==
  IF g.current_step_index >= Len(g.all_steps)
    THEN [g EXCEPT !.shown = SummaryView(g.all_steps), !.next_step_button = "disabled"]
    ELSE [g EXCEPT !.shown = StepView(g.all_steps, g.current_step_index)]

\* __init__ (lines 144-149) and setup_phase2_ui (lines 440-445).
InitGui ==
  /\ req = Nil /\ heap = Nil /\ data = Nil /\ pc = "idle"
  /\ solver_class = None /\ solver = Nil /\ vstat = "not_called"
  /\ exc = Nil /\ results = Nil /\ SolverIdle
  /\ gui = [single_step_var |-> FALSE, step_mode_active |-> FALSE,
            current_step_index |-> 0, all_steps |-> <<>>,
            next_step_button |-> "disabled", reset_step_button |-> "disabled",
            shown |-> [kind |-> "empty"], solves |-> 0, callback_error |-> None]

\* The check button bound to single_step_var (lines 431-432).
ToggleSingleStep ==
  /\ gui # Nil
  /\ gui' = [gui EXCEPT !.single_step_var = ~@]
  /\ UNCHANGED nongui

\* solve_root_finding, lines 870-897, for a request that passed the input
\* checks: the solver returns a result with len steps or raises.
SolveRootFinding ==
  /\ gui # Nil /\ gui.solves < MaxSolves
  /\ \E ok \in BOOLEAN : \E len \in 1..MaxSteps :
       LET k == gui.solves + 1
           g == [gui EXCEPT !.solves = k, !.all_steps = StepList(k, len)]
       IN  gui' = IF ~ok
                    THEN [gui EXCEPT !.solves = k, !.shown = [kind |-> "error"]]
                  ELSE IF gui.single_step_var
                    THEN display_step_mode(
                           [g EXCEPT !.step_mode_active = TRUE,
                                     !.current_step_index = 0,
                                     !.next_step_button = "normal",
                                     !.reset_step_button = "normal"])
                  ELSE [g EXCEPT !.shown = FullView(g.all_steps)]
  /\ UNCHANGED nongui

\* next_step_root_finding, lines 945-949; a disabled button calls nothing.
NextStepRootFinding ==
  /\ gui # Nil /\ gui.next_step_button = "normal"
  /\ gui' = IF gui.step_mode_active
              THEN display_step_mode([gui EXCEPT !.current_step_index = @ + 1])
              ELSE gui
  /\ UNCHANGED nongui

\* reset_step_mode, lines 951-957.
ResetStepMode ==
  /\ gui # Nil /\ gui.reset_step_button = "normal"
  /\ gui' = [gui EXCEPT !.step_mode_active = FALSE, !.current_step_index = 0,
                        !.next_step_button = "disabled",
                        !.reset_step_button = "disabled",
                        !.shown = FullView(gui.all_steps)]
  /\ UNCHANGED nongui

\* solve_linear_system, lines 638-678, for a request that passed the input
\* checks: SystemData.__init__ takes no use_scaling argument
\* (SystemData.py:10-11), so the call of line 677 raises TypeError, which
\* Tk reports; no field of the linear tab is written.
SolveLinearSystem ==
  /\ gui # Nil
  /\ gui' = [gui EXCEPT !.callback_error = "TypeError"]
  /\ UNCHANGED nongui

NextGui ==
  \/ ToggleSingleStep \/ SolveRootFinding \/ NextStepRootFinding
  \/ ResetStepMode \/ SolveLinearSystem

SpecGui == InitGui /\ [][NextGui]_vars

\* The display shows the step at the playback index of the current list.
ShowsCurrentStep(g) ==
  /\ g.current_step_index < Len(g.all_steps)
  /\ g.shown = StepView(g.all_steps, g.current_step_index)

C30_PlaybackOfLatestSolve ==
  [][gui'.next_step_button = "normal" =>
       /\ gui'.step_mode_active
       /\ gui'.all_steps # <<>>
       /\ gui'.all_steps[1].solve = gui'.solves
       /\ ShowsCurrentStep(gui')
       /\ gui'.all_steps # gui.all_steps => gui'.current_step_index = 0]_vars

\* ---- The bracketing root finders ----
\* A Bisection or False-Position run about to start an iteration.
AtBracketIteration ==
  /\ rf # Nil /\ rf.method \in {"Bisection", "False-Position"}
  /\ spc = "loop" /\ loc.iteration < loc.max_iter

\* C27: at the start of every Bisection and False-Position iteration the
\* bracket satisfies f(a)*f(b) <= 0, for the stored values and for the
\* function evaluated at the stored ends.
C27_BracketKeepsSignChange ==
  AtBracketIteration =>
    /\ RLe(RMul(loc.fa, loc.fb), Zero)
    /\ RLe(RMul(evaluate(rf.equation, loc.a), evaluate(rf.equation, loc.b)), Zero)

\* C28: whenever a root finder returns a success result, its 'iterations'
\* equals the number of recorded steps, and the recorded steps carry the
\* iteration indices 1, 2, ..., iterations in that order.
C28_IterationsCountSteps ==
  rf # Nil /\ spc = "returned" =>
    /\ sres.steps = steps
    /\ sres.iterations = Len(steps)
    /\ \A i \in 1..Len(steps) : steps[i].iteration = i

\* A run with an iteration budget of 0 that reached its iteration loop and
\* has ended.
ZeroBudgetEnded ==
  /\ spc \in {"returned", "raised"}
  /\ \/ rf # Nil /\ "max_iter" \in DOMAIN loc /\ loc.max_iter = 0
     \/ solver # Nil /\ solver.class = "IterativeMethod" /\ solver.iterations = 0

\* C29: with an iteration budget of 0, IterativeMethod and every root
\* finder end with their own non-convergence error and with no other kind
\* of failure.
C29_ZeroBudgetFailsToConverge ==
  ZeroBudgetEnded =>
    /\ spc = "raised"
    /\ sres.type = "ValueError"
    /\ sres.what = "failed to converge"

====
